---- MODULE Spec2Model ----
(***************************************************************************)
(* A model of the NLDAS rain-probability pipeline of ml/nldas_predictor.py *)
(* and ml/train_nldas_ml.py: the Data Rods fetcher with its retry loop,    *)
(* the payload parser, the hourly window assembler, the feature builders   *)
(* for training and inference, the schema aligner, the single-point       *)
(* predictor, the range predictor and the longitude conversions; and of    *)
(* the web application around it: the fetcher of models/obtener_data.py,   *)
(* ImprovedWeatherPredictor of models/weather_predictor.py, the route      *)
(* POST /api/climate/predict of routes/climate.py and the route            *)
(* GET /geocode of routes/geo.py.                                          *)
(*                                                                         *)
(* Time is counted in ticks, TicksPerHour ticks to the hour.  A number is  *)
(* an exact rational <<n, d>> (d > 0, lowest terms); a missing value       *)
(* (pandas NaN / NaT, Python None) is the empty tuple <<>>.                *)
(***************************************************************************)
EXTENDS Integers, Sequences, FiniteSets, TLC

VARIABLES
    pc,             \* where the running call stands
    call,           \* the running top-level call and its arguments
    server,         \* environment: what Data Rods answers, per variable
    flaky,          \* environment: the variables whose GET may fail
    vi,             \* _fetch_window: position in VARIABLES of the loop
    attempt,        \* _get_time_series: requests sent by the running fetch
    last,           \* _get_time_series: `last`, <<>> while None
    requests,       \* environment: every GET sent by the running call
    responses,      \* environment: the answers to the running fetch
    frames,         \* _fetch_window: `frames`
    raw,            \* _fetch_window: `raw`, what the last fetch returned
    df_all,         \* what _fetch_window returned, <<>> while nothing
    err,            \* the exception that ended the call, <<>> while none
    ts_str,         \* parser run: the payload
    parsed,         \* parser run: what _parse_time_series returned
    arg_df,         \* feature run: the hourly table
    arg_horizon,    \* feature run: the horizon, in hours
    arg_threshold,  \* feature run: the rain threshold
    Xy,             \* feature run: what build_dataset returned
    X,              \* feature run: what _build_features returned
    X_one,          \* feature run: what build_features_for_inference returned
    feat_X,         \* predict_rain_prob: `X`, <<>> while unset
    artifacts,      \* predict_rain_prob: `pipe, feat_cols`, <<>> while unset
    n_loads,        \* environment: times the artifact files were read
    n_predicts,     \* environment: times the model was called
    result,         \* what predict_rain_prob returned, <<>> while nothing
    predictions,    \* environment: the calls of predict_proba, row and answer
    rng,            \* predict_rain_prob_range: its arguments and `times`
    ti,             \* predict_rain_prob_range: position in `times` of the loop
    range_rows,     \* predict_rain_prob_range: `rows`
    range_out,      \* what predict_rain_prob_range returned, <<>> while nothing
    calls,          \* environment: every call of predict_rain_prob of the range
    align_X,        \* aligner run: the table
    align_cols,     \* aligner run: the manifest
    aligned,        \* aligner run: what _align_columns returned
    realigned,      \* aligner run: what _align_columns returned for `aligned`
    lon_in,         \* longitude run: the longitude, <<>> while none
    lon_0360,       \* longitude run: what lon_to_0360 returned
    lon_180,        \* longitude run: what lon_to_180 returned for it
    lagged,         \* lag run: what _add_lags returned
    lagged_train,   \* lag run: what add_lag_features returned
    od_pc,          \* models/obtener_data.get_time_series: where the call stands
    od_iteration,   \* models/obtener_data.get_time_series: `iteration`
    od_done,        \* models/obtener_data.get_time_series: `done`
    od_responses,   \* environment: the answers to the GETs of that call
    od_ret,         \* what that call returned or raised, <<>> while running
    model_file,     \* ml/weather_model.pkl: what it holds, <<>> while absent
    predictor,      \* the ImprovedWeatherPredictor instance, <<>> while None
    wp_ret,         \* what the last train() returned, <<>> while none
    day_calls,      \* the predict_single_day calls of the last request
    climate_up,     \* routes/climate.py: TRUE once the module is imported
    now,            \* environment: datetime.now()
    climate_req,    \* POST /api/climate/predict: the body of the last request
    climate_resp,   \* POST /api/climate/predict: the answer to it
    geo_args,       \* GET /geocode: the query arguments of the last request
    geo_upstream,   \* environment: what Nominatim answered, <<>> while not asked
    geo_resp        \* GET /geocode: the answer to the last request

parseVars == <<ts_str, parsed>>
featVars == <<arg_df, arg_horizon, arg_threshold, Xy, X, X_one>>
predVars == <<feat_X, artifacts, n_loads, n_predicts, result, predictions>>
rangeVars == <<rng, ti, range_rows, range_out, calls>>
alignVars == <<align_X, align_cols, aligned, realigned>>
lonVars == <<lon_in, lon_0360, lon_180>>
lagVars == <<lagged, lagged_train>>
odVars == <<od_pc, od_iteration, od_done, od_responses, od_ret>>
wpVars == <<model_file, predictor, wp_ret, day_calls>>
climateVars == <<climate_up, now, climate_req, climate_resp>>
geoVars == <<geo_args, geo_upstream, geo_resp>>
appVars == <<odVars, wpVars, climateVars, geoVars>>
envVars == <<server, flaky>>

vars == <<pc, call, envVars, vi, attempt, last, requests, responses, frames,
          raw, df_all, err, parseVars, featVars, predVars, rangeVars,
          alignVars, lonVars, lagVars, appVars>>

----------------------------------------------------------------------------
(* Bounds of the model. *)

TicksPerHour == 2       \* resolution of a timestamp
MaxHours == 6           \* hours of a window in the assembler runs
MaxRows == 3            \* data rows of a payload in the parser runs

(* Program constants. *)

Attempts == 3           \* attempts: int = 3
TruncLen == 200         \* last.text[:200]
HeaderRow == 10         \* header=10
FfillLimit == 2         \* ffill(limit=2)
StatusOK == 200         \* r.status_code == 200

----------------------------------------------------------------------------
(* Missing values and exact numbers. *)

NaN == <<>>
None == <<>>
IsNaN(c) == Len(c) = 0
NotNa(c) == Len(c) # 0
Some(x) == <<x>>
The(o) == o[1]
Abs(n) == IF n < 0 THEN -n ELSE n
Min(a, b) == IF a <= b THEN a ELSE b
Max(a, b) == IF a >= b THEN a ELSE b

RECURSIVE GCD(_, _)
GCD(a, b) == IF b = 0 THEN a ELSE GCD(b, a % b)

Rat(n, d) == LET g == GCD(Abs(n), d) IN IF g = 0 THEN <<0, 1>> ELSE <<n \div g, d \div g>>
Num(n) == <<n, 1>>
RAdd(x, y) == Rat(x[1] * y[2] + y[1] * x[2], x[2] * y[2])
RDivInt(x, k) == Rat(x[1], x[2] * k)
RGeq(x, y) == x[1] * y[2] >= y[1] * x[2]
RSub(x, y) == Rat(x[1] * y[2] - y[1] * x[2], x[2] * y[2])

RECURSIVE RSum(_)
RSum(s) == IF Len(s) = 0 THEN Num(0) ELSE RAdd(s[1], RSum(Tail(s)))

SelectSeqNotNa(s) == SelectSeq(s, NotNa)

\* Series.mean() / the mean of a resample bucket or a rolling window: NaN is
\* skipped, and the mean of no value is NaN.
MeanSkipNa(s) ==
    LET v == SelectSeqNotNa(s)
    IN  IF Len(v) = 0 THEN NaN ELSE RDivInt(RSum(v), Len(v))

\* The members of a set of integers in ascending order.
SortedSeq(S) ==
    [k \in 1..Cardinality(S) |->
        CHOOSE x \in S : Cardinality({y \in S : y <= x}) = k]

Range(s) == {s[i] : i \in 1..Len(s)}
Prefix(s, n) == SubSeq(s, 1, Min(n, Len(s)))

----------------------------------------------------------------------------
(* The seven variables, in the order of the VARIABLES dict. *)

VARIABLES_keys ==
    <<"Rainf", "Tair", "Qair", "SoilM_0_100cm", "Qh", "Qg", "Evap">>

VARIABLES_id(name) ==
    IF name \in {"Rainf", "Tair", "Qair"}
    THEN "NLDAS2:NLDAS_FORA0125_H_v2.0:" \o name
    ELSE "NLDAS2:NLDAS_NOAH0125_H_v2.0:" \o name

NVars == Len(VARIABLES_keys)

----------------------------------------------------------------------------
(* Environment: the text Data Rods sends.  A payload is a sequence of     *)
(* lines; a line holds the text of its two tab-separated fields, <<t>> for *)
(* text that reads as the timestamp t (in ticks), <<v>> for text that      *)
(* reads as the number v, and <<>> for text that reads as neither.  The    *)
(* metadata lines and the column header line come first.                   *)

MetaLine == [time |-> <<>>, data |-> <<>>]
DataLine(t, v) == [time |-> <<t>>, data |-> <<v>>]
HeaderLines == [i \in 1..(HeaderRow + 1) |-> MetaLine]

HourOf(t) == t \div TicksPerHour
HourStart(h) == h * TicksPerHour

\* The value the source holds for hour offset o of a window.
SourceValue(o) == o + 1

\* A descriptor d says which hours of the requested window the answer lacks
\* (d.missing, hour offsets from the window's start), for which hours the
\* value text is unreadable (d.junk), and whether the answer holds one more row:
\* "dup" repeats the first timestamp at the end of the payload with another
\* value, "sub" adds a second sample later within the first sampled hour.
DataRows(offsets, start, junk) ==
    [k \in 1..Len(offsets) |->
        [time |-> <<start + HourStart(offsets[k])>>,
         data |-> IF offsets[k] \in junk THEN <<>> ELSE <<SourceValue(offsets[k])>>]]

Payload(d, start, end) ==
    LET present == {o \in 0..(HourOf(end) - HourOf(start)) : o \notin d.missing}
        offs == SortedSeq(present)
        rows == DataRows(offs, start, d.junk)
        more == IF Len(offs) = 0 \/ d.extra = "none" THEN <<>>
                ELSE IF d.extra = "dup"
                     THEN <<DataLine(start + HourStart(offs[1]), SourceValue(offs[1]) + 2)>>
                     ELSE <<DataLine(start + HourStart(offs[1]) + (TicksPerHour - 1),
                                     SourceValue(offs[1]) + 2)>>
    IN  HeaderLines \o rows \o more

FullDesc == [missing |-> {}, junk |-> {}, extra |-> "none"]

----------------------------------------------------------------------------
(* _parse_time_series / parse_time_series. *)

Raise(type) == [ok |-> FALSE, type |-> type]

\* sort_index(): rows in ascending order of their timestamp, rows of one
\* timestamp in their order of arrival.
SortByTime(rows) ==
    LET n == Len(rows)
        \* the place of row i: after the rows of an earlier timestamp and
        \* the rows of its own timestamp that came before it
        place == SubSeq([i \in 1..n |->
                           Cardinality({j \in 1..n :
                              \/ rows[j].time[1] < rows[i].time[1]
                              \/ rows[j].time[1] = rows[i].time[1] /\ j < i}) + 1],
                        1, n)
    IN  [k \in 1..n |-> rows[CHOOSE i \in 1..n : place[i] = k]]

HasTime(r) == NotNa(r.time)

\* pd.to_numeric(errors="coerce") of one field.
ToNumeric(text) == IF Len(text) = 0 THEN NaN ELSE Num(text[1])

parse_time_series(text) ==
    IF Len(text) < HeaderRow + 1 THEN Raise("ParserError")
    ELSE LET body == SubSeq(text, HeaderRow + 2, Len(text))
             kept == SortByTime(SelectSeq(body, HasTime))
         IN  [ok |-> TRUE,
              index |-> [i \in 1..Len(kept) |-> kept[i].time[1]],
              data |-> [i \in 1..Len(kept) |-> ToNumeric(kept[i].data)]]

----------------------------------------------------------------------------
(* A table (DataFrame) is [index, columns, data]: the row labels in row    *)
(* order, the column names in column order, and per column its cells in    *)
(* row order.  A frame is a parsed series, [index, data].                  *)

Table(index, columns, data) == [index |-> index, columns |-> columns, data |-> data]
NRows(df) == Len(df.index)
ColSet(df) == Range(df.columns)

HasDuplicates(index) == Cardinality(Range(index)) # Len(index)

\* The row of frame f labelled t (f's labels are distinct here).
CellAt(f, t) ==
    IF \E j \in 1..Len(f.index) : f.index[j] = t
    THEN f.data[CHOOSE j \in 1..Len(f.index) : f.index[j] = t]
    ELSE NaN

\* pd.concat(frames, axis=1).sort_index(): the outer join of the frames on
\* their labels.  Frames whose indexes are all equal are put side by side as
\* they are; otherwise each frame is reindexed to the union of the labels,
\* which pandas refuses for a frame with a repeated label.
concat(fs, names) ==
    LET n == Len(fs)
        same == \A k \in 1..n : fs[k].index = fs[1].index
    IN  IF n = 0 THEN Raise("ValueError")
        ELSE IF same
        THEN [ok |-> TRUE,
              df |-> Table(fs[1].index, names,
                           [c \in Range(names) |->
                              fs[CHOOSE k \in 1..n : names[k] = c].data])]
        ELSE IF \E k \in 1..n : HasDuplicates(fs[k].index)
        THEN Raise("InvalidIndexError")
        ELSE LET idx == SortedSeq(UNION {Range(fs[k].index) : k \in 1..n})
             IN  [ok |-> TRUE,
                  df |-> Table(idx, names,
                               [c \in Range(names) |->
                                  LET f == fs[CHOOSE k \in 1..n : names[k] = c]
                                  IN  [i \in 1..Len(idx) |-> CellAt(f, idx[i])]])]

\* The cells of column col whose row label falls in hour h, in row order.
BucketCells(index, col, h, i) ==
    LET rows == SortedSeq({j \in i..Len(index) : HourOf(index[j]) = h})
    IN  [k \in 1..Len(rows) |-> col[rows[k]]]

\* resample("1H").mean(): one row per hour from the hour of the first label
\* to the hour of the last, each cell the mean of the column's values in
\* that hour.
resample_mean(df) ==
    IF NRows(df) = 0 THEN df
    ELSE LET h0 == HourOf(df.index[1])
             h1 == HourOf(df.index[NRows(df)])
             n == h1 - h0 + 1
         IN  Table([i \in 1..n |-> HourStart(h0 + i - 1)], df.columns,
                   [c \in ColSet(df) |->
                      [i \in 1..n |->
                         MeanSkipNa(BucketCells(df.index, df.data[c], h0 + i - 1, 1))]])

\* The last row before row i at which col holds a value, 0 when none does.
LastValid(col, i) ==
    LET S == {j \in 1..(i - 1) : NotNa(col[j])}
    IN  IF S = {} THEN 0 ELSE CHOOSE j \in S : \A k \in S : k <= j

ffill_col_limit_off_by_one(col, limit) ==
    [i \in 1..Len(col) |->
        IF NotNa(col[i]) THEN col[i]
        ELSE LET j == LastValid(col, i)
             IN  IF j > 0 /\ i - j < limit THEN col[j] ELSE NaN]

ffill_col_without_limit(col, limit) ==
    [i \in 1..Len(col) |->
        IF NotNa(col[i]) THEN col[i]
        ELSE LET j == LastValid(col, i)
             IN  IF j > 0 THEN col[j] ELSE NaN]

\* Series.ffill(limit): a missing cell takes the last value before it when
\* that value is at most `limit` rows back.
ffill_col(col, limit) ==
    [i \in 1..Len(col) |->
        IF NotNa(col[i]) THEN col[i]
        ELSE LET j == LastValid(col, i)
             IN  IF j > 0 /\ i - j <= limit THEN col[j] ELSE NaN]

ffill(df, limit) ==
    Table(df.index, df.columns, [c \in ColSet(df) |-> ffill_col(df.data[c], limit)])

\* The tail of _fetch_window / fetch_all, after the loop over VARIABLES.
assemble(fs) ==
    LET joined == concat(fs, VARIABLES_keys)
    IN  IF ~joined.ok THEN joined
        ELSE [ok |-> TRUE, df |-> ffill(resample_mean(joined.df), FfillLimit)]

----------------------------------------------------------------------------
(* Environment: the answers of Data Rods that are not a 200.  Each is a    *)
(* status and a body; the body of n characters is <<1, ..., n>>.           *)

Body(n) == [i \in 1..n |-> i]

ErrorResponses ==
    { [status |-> 404, text |-> Body(0)],
      [status |-> 500, text |-> Body(TruncLen)],
      [status |-> 503, text |-> Body(TruncLen + 1)] }

----------------------------------------------------------------------------
(* _get_time_series and _fetch_window, one action per GET.                 *)

Exception(type, status, text) == [type |-> type, status |-> status, text |-> text]

DataRodsError_whole_body(r) == Exception("RuntimeError", r.status, r.text)

\* raise RuntimeError(f"Data Rods error ({last.status_code}) ...: {last.text[:200]}")
DataRodsError(r) == Exception("RuntimeError", r.status, Prefix(r.text, TruncLen))

\* The GET of the running fetch: full_url is built once, before the loop.
Request ==
    [variable |-> VARIABLES_id(VARIABLES_keys[vi]),
     startDate |-> call.start, endDate |-> call.end,
     lat |-> call.lat, lon |-> call.lon]

\* The answers to the running fetch: a new fetch starts a new list.
Answered(r) == IF attempt = 0 THEN <<r>> ELSE Append(responses, r)

\* Where a call goes once _fetch_window has returned its table.
AfterWindow == IF call.fn = "predict_rain_prob" THEN "features" ELSE "returned"

\* _fetch_window(lat, lon, start_iso, end_iso) is called.
FetchWindow(lat, lon, start, end) ==
    /\ pc = "idle"
    /\ call' = [fn |-> "_fetch_window", lat |-> lat, lon |-> lon,
                start |-> start, end |-> end, when |-> end, horizon |-> 0]
    /\ pc' = "get"
    /\ vi' = 1
    /\ attempt' = 0
    /\ last' = None
    /\ frames' = <<>>
    /\ UNCHANGED <<envVars, requests, responses, raw, df_all, err, parseVars, featVars, predVars, rangeVars, alignVars, lonVars, lagVars, appVars>>

\* requests.get answers 200 with `text`: _get_time_series returns it, the
\* loop of _fetch_window parses it and goes on to the next variable, or,
\* after the last one, assembles the table and returns it.
Respond200(text) ==
    LET f == parse_time_series(text)
        fs == Append(frames, [index |-> f.index, data |-> f.data])
        out == assemble(fs)
    IN  /\ requests' = Append(requests, Request)
        /\ responses' = Answered([status |-> StatusOK, text |-> text])
        /\ raw' = Some(text)
        /\ attempt' = 0
        /\ last' = None
        /\ IF ~f.ok
           THEN /\ pc' = "raised"
                /\ err' = Some(Exception(f.type, 0, <<>>))
                /\ UNCHANGED <<vi, frames, df_all>>
           ELSE IF vi < NVars
           THEN /\ frames' = fs
                /\ vi' = vi + 1
                /\ UNCHANGED <<pc, df_all, err>>
           ELSE IF ~out.ok
           THEN /\ frames' = fs
                /\ pc' = "raised"
                /\ err' = Some(Exception(out.type, 0, <<>>))
                /\ UNCHANGED <<vi, df_all>>
           ELSE /\ frames' = fs
                /\ df_all' = Some(out.df)
                /\ pc' = AfterWindow
                /\ UNCHANGED <<vi, err>>
        /\ UNCHANGED <<call, envVars, parseVars, featVars, predVars, rangeVars, alignVars, lonVars, lagVars, appVars>>

Get200 ==
    /\ pc = "get"
    /\ attempt < Attempts
    /\ \E d \in server[VARIABLES_keys[vi]] :
          Respond200(Payload(d, call.start, call.end))

GetNon200_skips_variable ==
    /\ pc = "get"
    /\ attempt < Attempts
    /\ VARIABLES_keys[vi] \in flaky
    /\ \E r \in ErrorResponses :
          /\ requests' = Append(requests, Request)
          /\ responses' = Answered(r)
          /\ IF attempt + 1 < Attempts
             THEN /\ attempt' = attempt + 1
                  /\ last' = Some(r)
                  /\ UNCHANGED <<pc, vi, frames, df_all>>
             ELSE /\ attempt' = 0
                  /\ last' = None
                  /\ IF vi < NVars
                     THEN /\ vi' = vi + 1
                          /\ UNCHANGED <<pc, frames, df_all>>
                     ELSE /\ frames' = [k \in 1..NVars |-> [index |-> <<>>, data |-> <<>>]]
                          /\ df_all' = Some(Table(<<>>, VARIABLES_keys,
                                                  [c \in Range(VARIABLES_keys) |-> <<>>]))
                          /\ pc' = "returned"
                          /\ UNCHANGED vi
    /\ UNCHANGED <<call, envVars, raw, err, parseVars, featVars, predVars, rangeVars, alignVars, lonVars, lagVars, appVars>>

\* requests.get answers another status: `last = r`, and the loop goes round
\* again, or, when that was the last attempt, the fetch raises.
GetNon200 ==
    /\ pc = "get"
    /\ attempt < Attempts
    /\ VARIABLES_keys[vi] \in flaky
    /\ \E r \in ErrorResponses :
          /\ requests' = Append(requests, Request)
          /\ responses' = Answered(r)
          /\ last' = Some(r)
          /\ attempt' = attempt + 1
          /\ IF attempt + 1 < Attempts
             THEN UNCHANGED <<pc, err>>
             ELSE /\ pc' = "raised"
                  /\ err' = Some(DataRodsError(r))
    /\ UNCHANGED <<call, envVars, vi, frames, raw, df_all, parseVars, featVars, predVars, rangeVars, alignVars, lonVars, lagVars, appVars>>

\* A fetcher whose loop catches the exception of requests.get and goes round
\* again while attempts are left.
GetRaises_and_is_retried ==
    /\ pc = "get"
    /\ attempt < Attempts
    /\ VARIABLES_keys[vi] \in flaky
    /\ requests' = Append(requests, Request)
    /\ responses' = IF attempt = 0 THEN <<>> ELSE responses
    /\ attempt' = attempt + 1
    /\ IF attempt + 1 < Attempts
       THEN UNCHANGED <<pc, err>>
       ELSE /\ pc' = "raised"
            /\ err' = Some(Exception("RequestException", 0, <<>>))
    /\ UNCHANGED <<call, envVars, vi, last, frames, raw, df_all, parseVars, featVars, predVars, rangeVars, alignVars, lonVars, lagVars, appVars>>

\* requests.get raises (a timeout, a refused connection): nothing catches it.
GetRaises ==
    /\ pc = "get"
    /\ attempt < Attempts
    /\ VARIABLES_keys[vi] \in flaky
    /\ requests' = Append(requests, Request)
    /\ responses' = IF attempt = 0 THEN <<>> ELSE responses
    /\ attempt' = attempt + 1
    /\ pc' = "raised"
    /\ err' = Some(Exception("RequestException", 0, <<>>))
    /\ UNCHANGED <<call, envVars, vi, last, frames, raw, df_all, parseVars, featVars, predVars, rangeVars, alignVars, lonVars, lagVars, appVars>>

----------------------------------------------------------------------------
(* The fetcher and the window assembler under every mix of answers.        *)

Points == {<<38, -88>>}
GapDesc == [missing |-> {1}, junk |-> {}, extra |-> "none"]

Idle ==
    /\ pc = "idle"
    /\ call = [fn |-> "", lat |-> 0, lon |-> 0, start |-> 0, end |-> 0,
               when |-> 0, horizon |-> 0]
    /\ vi = 0
    /\ attempt = 0
    /\ last = None
    /\ requests = <<>>
    /\ responses = <<>>
    /\ frames = <<>>
    /\ raw = None
    /\ df_all = None
    /\ err = None

NoParserRun ==
    /\ ts_str = <<>>
    /\ parsed = None

NoPrediction ==
    /\ feat_X = None
    /\ artifacts = None
    /\ n_loads = 0
    /\ n_predicts = 0
    /\ result = None
    /\ predictions = <<>>

NoRange ==
    /\ rng = None
    /\ ti = 0
    /\ range_rows = <<>>
    /\ range_out = None
    /\ calls = <<>>

NoAlignerRun ==
    /\ align_X = None
    /\ align_cols = <<>>
    /\ aligned = None
    /\ realigned = None

NoLongitudeRun ==
    /\ lon_in = None
    /\ lon_0360 = None
    /\ lon_180 = None

NoLagRun ==
    /\ lagged = None
    /\ lagged_train = None

NoObtenerRun ==
    /\ od_pc = "idle"
    /\ od_iteration = 0
    /\ od_done = FALSE
    /\ od_responses = <<>>
    /\ od_ret = None

NoWeatherRun ==
    /\ model_file = None
    /\ predictor = None
    /\ wp_ret = None
    /\ day_calls = <<>>

NoClimateRun ==
    /\ climate_up = FALSE
    /\ now = 0
    /\ climate_req = None
    /\ climate_resp = None

NoGeocodeRun ==
    /\ geo_args = None
    /\ geo_upstream = None
    /\ geo_resp = None

NoAppRun ==
    /\ NoObtenerRun
    /\ NoWeatherRun
    /\ NoClimateRun
    /\ NoGeocodeRun

AllVariables == Range(VARIABLES_keys)

NoFeatureRun ==
    /\ arg_df = None
    /\ arg_horizon = 0
    /\ arg_threshold = Num(0)
    /\ Xy = None
    /\ X = None
    /\ X_one = None

\* A server that answers every variable in full but those of G, for which
\* it answers with descriptor d.
Serving(G, d) == [v \in Range(VARIABLES_keys) |-> {IF v \in G THEN d ELSE FullDesc}]

Init ==
    /\ Idle
    /\ NoParserRun
    /\ NoFeatureRun
    /\ NoPrediction
    /\ NoRange
    /\ NoAlignerRun
    /\ NoLongitudeRun
    /\ NoLagRun
    /\ NoAppRun
    /\ flaky = AllVariables
    /\ server \in {Serving({}, FullDesc), Serving({"Qair"}, GapDesc)}

CallFetchWindow ==
    \E p \in Points : FetchWindow(p[1], p[2], 0, HourStart(2))

Next ==
    \/ CallFetchWindow
    \/ Get200
    \/ GetNon200
    \/ GetRaises

Spec == Init /\ [][Next]_vars

----------------------------------------------------------------------------
(* The window assembler on answers with holes: every GET is answered 200,  *)
(* and the variables of one set are answered from one descriptor.          *)

WinStart == HourStart(7)
WinEnd == WinStart + HourStart(MaxHours - 1)

WinDescs ==
    [missing : SUBSET (0..(MaxHours - 1)), junk : SUBSET {0, 2},
     extra : {"none", "dup", "sub"}]

WinGapped ==
    {{}, Range(VARIABLES_keys)} \cup {{v} : v \in Range(VARIABLES_keys)}

InitWin ==
    /\ Idle
    /\ NoParserRun
    /\ NoFeatureRun
    /\ NoPrediction
    /\ NoRange
    /\ NoAlignerRun
    /\ NoLongitudeRun
    /\ NoLagRun
    /\ NoAppRun
    /\ flaky = {}
    /\ server \in {Serving(G, d) : G \in WinGapped, d \in WinDescs}

CallFetchWindowWin ==
    \E p \in Points : FetchWindow(p[1], p[2], WinStart, WinEnd)

NextWin ==
    \/ CallFetchWindowWin
    \/ Get200

SpecWin == InitWin /\ [][NextWin]_vars

----------------------------------------------------------------------------
(* The parser on every short payload.                                      *)

ParseLines ==
    [time : {<<>>, <<0>>, <<1>>, <<TicksPerHour>>}, data : {<<>>, <<1>>, <<2>>}]

RECURSIVE SeqsUpTo(_, _)
SeqsUpTo(S, n) ==
    IF n = 0 THEN {<<>>}
    ELSE LET shorter == SeqsUpTo(S, n - 1)
         IN  shorter \cup {Append(q, x) : q \in shorter, x \in S}

ParseInputs ==
    {HeaderLines \o rows : rows \in SeqsUpTo(ParseLines, MaxRows)}
    \cup {SubSeq(HeaderLines, 1, HeaderRow)}

InitParse ==
    /\ Idle
    /\ server = Serving({}, FullDesc)
    /\ ts_str \in ParseInputs
    /\ parsed = None
    /\ NoFeatureRun
    /\ NoPrediction
    /\ NoRange
    /\ NoAlignerRun
    /\ NoLongitudeRun
    /\ NoLagRun
    /\ NoAppRun
    /\ flaky = {}

\* _parse_time_series(ts_str) is called.
ParseTimeSeries ==
    /\ parsed = None
    /\ parsed' = Some(parse_time_series(ts_str))
    /\ UNCHANGED <<pc, call, envVars, vi, attempt, last, requests, responses,
                   frames, raw, df_all, err, ts_str, featVars, predVars, rangeVars, alignVars, lonVars, lagVars, appVars>>

NextParse == ParseTimeSeries

SpecParse == InitParse /\ [][NextParse]_vars

----------------------------------------------------------------------------
(* Claims about the fetcher and the window assembler's loop.               *)

PosOf(varid) == CHOOSE k \in 1..NVars : VARIABLES_id(VARIABLES_keys[k]) = varid
NonOK(r) == r.status # 200
IsDataRodsError(e) == NotNa(e) /\ The(e).type = "RuntimeError"

\* The GETs sent for the variable of the latest GET.
LatestFetchRequests ==
    LET v == requests[Len(requests)].variable
        Mine(q) == q.variable = v
    IN  SelectSeq(requests, Mine)

\* C1: one call of the fetcher sends the same request until the first 200
\* answer or until 3 requests are sent; it returns the body of the first 200
\* answer and sends nothing more, and after 3 answers other than 200 it
\* raises an error with the status of the third answer and the first 200
\* characters of its body.
C1_FetcherRetries ==
    Len(requests) > 0 =>
      LET mine == LatestFetchRequests
          n == Len(responses)
      IN  /\ Len(mine) <= 3
          /\ \A i \in 1..Len(mine) : mine[i] = mine[1]
          /\ n <= Len(mine)
          /\ \A i \in 1..(n - 1) : NonOK(responses[i])
          /\ (n > 0 /\ ~NonOK(responses[n])) =>
                /\ raw = Some(responses[n].text)
                /\ Len(mine) = n
                /\ attempt = 0
                /\ ~IsDataRodsError(err)
          /\ (n = 3 /\ NonOK(responses[3])) =>
                /\ pc = "raised"
                /\ IsDataRodsError(err)
                /\ The(err).status = responses[3].status
                /\ The(err).text = SubSeq(responses[3].text, 1, Min(200, Len(responses[3].text)))
          /\ IsDataRodsError(err) => (n = 3 /\ NonOK(responses[3]))

\* A fetch returned on its third request, and the next one failed with a
\* body longer than 200 characters.
C1_Witness ==
    /\ pc = "raised"
    /\ IsDataRodsError(err)
    /\ Len(requests) = 6
    /\ Len(frames) = 1
    /\ Len(responses[3].text) > 200
    /\ Len(The(err).text) = 200

\* C2: the window assembler asks for the 7 variables one after another in
\* the order of VARIABLES; when a fetch fails the call raises that error,
\* returns no table and asks for no later variable; a table is returned only
\* after 7 fetches that succeeded.
C2_AllOrNothing ==
    LET asked == {PosOf(requests[p].variable) : p \in 1..Len(requests)}
    IN  /\ \A p \in 1..(Len(requests) - 1) :
              PosOf(requests[p].variable) <= PosOf(requests[p + 1].variable)
        /\ \A k \in asked : \A j \in 1..k : j \in asked
        /\ pc = "raised" =>
              /\ df_all = None
              /\ NotNa(err)
              /\ \A k \in asked : k <= Len(frames) + 1
              /\ ~ENABLED (Get200 \/ GetNon200 \/ GetRaises)
        /\ NotNa(df_all) =>
              /\ Len(frames) = 7
              /\ asked = 1..7
              /\ \A k \in 1..7 :
                    frames[k].index =
                       parse_time_series(
                          Payload(CHOOSE d \in server[VARIABLES_keys[k]] : TRUE,
                                  call.start, call.end)).index
              /\ err = None
        /\ Len(frames) < 7 => df_all = None

\* The third variable's fetch failed after two variables were fetched.
C2_Witness ==
    /\ pc = "raised"
    /\ Len(frames) = 2
    /\ PosOf(requests[Len(requests)].variable) = 3
    /\ df_all = None

----------------------------------------------------------------------------
(* Claims about the assembled table and the parser.                        *)

\* The parsed series of variable k holds a number in hour h.
HasValueIn(k, h) ==
    \E j \in 1..Len(frames[k].index) :
        HourOf(frames[k].index[j]) = h /\ NotNa(frames[k].data[j])

\* The parsed series of variable k holds a sample in hour h.
HasSampleIn(k, h) ==
    \E j \in 1..Len(frames[k].index) : HourOf(frames[k].index[j]) = h

TableHours(df) == {HourOf(df.index[i]) : i \in 1..NRows(df)}

NoMissing(df) ==
    \A c \in ColSet(df) : \A i \in 1..NRows(df) : NotNa(df.data[c][i])

Returned == pc = "returned" /\ NotNa(df_all)

\* C3 as stated: when no variable has more than 2 hours in a row without a
\* sample inside the table's index, runs at the start of the table
\* included, the assembled table has no missing value.
C3_Original ==
    Returned =>
      LET df == The(df_all)
          hs == TableHours(df)
      IN  (\A k \in 1..NVars : \A h \in hs :
              (h + 2 \in hs) =>
                 (HasSampleIn(k, h) \/ HasSampleIn(k, h + 1) \/ HasSampleIn(k, h + 2)))
          => NoMissing(df)

\* C3: when every variable holds a number in the first hour of the table
\* and has no more than 2 hours in a row without a number inside the
\* table's index, the assembled table has no missing value.
C3_NoMissingAfterShortGaps ==
    Returned =>
      LET df == The(df_all)
          hs == TableHours(df)
      IN  (\A k \in 1..NVars :
              /\ \A h \in hs : (\A g \in hs : h <= g) => HasValueIn(k, h)
              /\ \A h \in hs :
                    (h + 2 \in hs) =>
                       (HasValueIn(k, h) \/ HasValueIn(k, h + 1) \/ HasValueIn(k, h + 2)))
          => NoMissing(df)

\* Forward-fill closed a hole of exactly two hours, under C3's condition.
C3_Witness ==
    /\ Returned
    /\ NoMissing(The(df_all))
    /\ \E k \in 1..NVars : \E h \in TableHours(The(df_all)) :
          /\ HasValueIn(k, h)
          /\ ~HasValueIn(k, h + 1)
          /\ ~HasValueIn(k, h + 2)
          /\ HasValueIn(k, h + 3)

\* C4: in a column of the assembled table, the hours without a number that
\* follow an hour with a number take that hour's value for the first two of
\* them and stay missing from the third on.
C4_FfillLimit ==
    Returned =>
      LET df == The(df_all)
      IN  \A k \in 1..NVars : \A i \in 1..NRows(df) : \A j \in (i + 1)..NRows(df) :
             LET col == df.data[VARIABLES_keys[k]]
             IN  (/\ HasValueIn(k, HourOf(df.index[i]))
                  /\ \A m \in (i + 1)..j : ~HasValueIn(k, HourOf(df.index[m])))
                 => /\ NotNa(col[i])
                    /\ col[j] = IF j - i <= 2 THEN col[i] ELSE NaN

\* A hole of exactly three hours between two numbers: its third hour alone
\* is missing in the table.
C4_Witness ==
    /\ Returned
    /\ LET df == The(df_all)
       IN  \E k \in 1..NVars : \E i \in 1..(NRows(df) - 4) :
              LET col == df.data[VARIABLES_keys[k]]
              IN  /\ HasValueIn(k, HourOf(df.index[i]))
                  /\ \A m \in (i + 1)..(i + 3) : ~HasValueIn(k, HourOf(df.index[m]))
                  /\ HasValueIn(k, HourOf(df.index[i + 4]))
                  /\ NotNa(col[i + 1]) /\ NotNa(col[i + 2]) /\ IsNaN(col[i + 3])

\* The rows of the payload that the parser reads, in payload order.
DataLinesOf(text) == SelectSeq(SubSeq(text, HeaderRow + 2, Len(text)), HasTime)

\* C5 as stated: the parsed series has a strictly increasing index, and of
\* the rows of one timestamp only the last survives.
C5_Original ==
    (NotNa(parsed) /\ The(parsed).ok) =>
      LET f == The(parsed)
          rows == DataLinesOf(ts_str)
      IN  /\ \A i \in 1..(Len(f.index) - 1) : f.index[i] < f.index[i + 1]
          /\ \A i \in 1..Len(f.index) :
                LET S == {j \in 1..Len(rows) : rows[j].time[1] = f.index[i]}
                    j == CHOOSE j \in S : \A m \in S : m <= j
                IN  f.data[i] = ToNumeric(rows[j].data)

----------------------------------------------------------------------------
(* pandas operations of the feature builders.                              *)

\* out[name] = col: a new column goes last, an existing one is replaced.
AddColumn(df, name, col) ==
    Table(df.index,
          IF name \in ColSet(df) THEN df.columns ELSE Append(df.columns, name),
          [c \in ColSet(df) \cup {name} |-> IF c = name THEN col ELSE df.data[c]])

\* A shift in the other direction: row i takes the value of row i + k.
shift_from_the_future(col, k) ==
    [i \in 1..Len(col) |->
        IF i + k >= 1 /\ i + k <= Len(col) THEN col[i + k] ELSE NaN]

\* Series.shift(k): row i takes the value of row i - k.
shift(col, k) ==
    [i \in 1..Len(col) |->
        IF i - k >= 1 /\ i - k <= Len(col) THEN col[i - k] ELSE NaN]

\* Series.rolling(window, min_periods).mean().
rolling_mean(col, window, min_periods) ==
    [i \in 1..Len(col) |->
        LET v == SelectSeqNotNa(SubSeq(col, Max(1, i - window + 1), i))
        IN  IF Len(v) >= min_periods THEN RDivInt(RSum(v), Len(v)) ELSE NaN]

\* The rows of df at the positions rows, in that order.
TakeRows(df, rows) ==
    Table([i \in 1..Len(rows) |-> df.index[rows[i]]], df.columns,
          [c \in ColSet(df) |-> [i \in 1..Len(rows) |-> df.data[c][rows[i]]]])

CompleteRow(df, i) == \A c \in ColSet(df) : NotNa(df.data[c][i])

\* DataFrame.dropna(): the rows without a missing value.
dropna(df) == TakeRows(df, SortedSeq({i \in 1..NRows(df) : CompleteRow(df, i)}))

iloc_first(df) ==
    IF NRows(df) = 0 THEN Raise("IndexError")
    ELSE [ok |-> TRUE, df |-> TakeRows(df, <<1>>)]

\* DataFrame.iloc[[-1]]: the last row, an IndexError on no row.
iloc_last(df) ==
    IF NRows(df) = 0 THEN Raise("IndexError")
    ELSE [ok |-> TRUE, df |-> TakeRows(df, <<NRows(df)>>)]

\* DataFrame.drop(columns=[name]).
drop_column(df, name) ==
    LET NotIt(c) == c # name
    IN  Table(df.index, SelectSeq(df.columns, NotIt),
              [c \in ColSet(df) \ {name} |-> df.data[c]])

\* The cyclical encodings are not computed: a cell holds the angle, in
\* turns, whose sine or cosine the code stores.  The year has 365 days and
\* tick 0 is midnight of its first day.
HourOfDay(t) == HourOf(t) % 24
DayOfYear(t) == ((HourOf(t) \div 24) % 365) + 1
Turns(k, n) == Rat(k, n)

Lags == <<1, 3, 6, 24>>
RollCols == <<"Tair", "Qair", "Evap", "Qh", "Qg">>
RollWindow == 6
RollMinPeriods == 3

LagName(c, L) == c \o "_lag" \o ToString(L) \o "h"
RollName(c) == c \o "_roll6h"

----------------------------------------------------------------------------
(* Columns added to a table: `out[name] = col` puts a new column last and  *)
(* replaces an existing one where it stands.                               *)

TimeCols == <<"hour_sin", "hour_cos", "doy_sin", "doy_cos">>

\* The names of news that df does not hold yet, in order.
Fresh(df, news) ==
    LET IsNew(c) == c \notin ColSet(df) IN SelectSeq(news, IsNew)

\* The lag columns in the order of `for c in cols: for L in lags`.
LagSpecs(cols, lags) ==
    [k \in 1..(Len(cols) * Len(lags)) |->
        LET c == cols[((k - 1) \div Len(lags)) + 1]
            L == lags[((k - 1) % Len(lags)) + 1]
        IN  [name |-> LagName(c, L), col |-> c, lag |-> L]]

SpecNames(specs) == [k \in 1..Len(specs) |-> specs[k].name]

\* The rolling-mean columns of `for col in [...]: if col in feat.columns`.
RollSpecs(feat) ==
    LET Held(c) == c \in ColSet(feat)
        held == SelectSeq(RollCols, Held)
    IN  [k \in 1..Len(held) |-> [name |-> RollName(held[k]), col |-> held[k]]]

----------------------------------------------------------------------------
(* ml/nldas_predictor.py: the inference feature builder.                   *)

_add_time_features(df) ==
    LET hour == [i \in 1..NRows(df) |-> Turns(HourOfDay(df.index[i]), 24)]
        doy == [i \in 1..NRows(df) |-> Turns(DayOfYear(df.index[i]), 366)]
    IN  Table(df.index, df.columns \o Fresh(df, TimeCols),
              [c \in ColSet(df) \cup Range(TimeCols) |->
                 IF c \in {"hour_sin", "hour_cos"} THEN hour
                 ELSE IF c \in {"doy_sin", "doy_cos"} THEN doy
                 ELSE df.data[c]])

_add_lags(df, cols, lags) ==
    LET specs == LagSpecs(cols, lags)
        names == SpecNames(specs)
    IN  Table(df.index, df.columns \o Fresh(df, names),
              [c \in ColSet(df) \cup Range(names) |->
                 IF c \in Range(names)
                 THEN LET sp == specs[CHOOSE k \in 1..Len(specs) : names[k] = c]
                      IN  shift(df.data[sp.col], sp.lag)
                 ELSE df.data[c]])

_add_rolls(feat) ==
    LET specs == RollSpecs(feat)
        names == SpecNames(specs)
    IN  Table(feat.index, feat.columns \o Fresh(feat, names),
              [c \in ColSet(feat) \cup Range(names) |->
                 IF c \in Range(names)
                 THEN LET sp == specs[CHOOSE k \in 1..Len(specs) : names[k] = c]
                      IN  rolling_mean(feat.data[sp.col], RollWindow, RollMinPeriods)
                 ELSE feat.data[c]])

\* A builder that keeps the last row of the window, complete or not.
_build_features_without_dropna(df_hist, horizon_h) ==
    IF \E k \in 1..NVars : VARIABLES_keys[k] \notin ColSet(df_hist)
    THEN Raise("KeyError")
    ELSE LET feat == _add_rolls(_add_lags(_add_time_features(df_hist), VARIABLES_keys, Lags))
         IN  iloc_last(feat)

\* _build_features(df_hist, horizon_h): out[c] of a missing column is a
\* KeyError.
_build_features(df_hist, horizon_h) ==
    IF \E k \in 1..NVars : VARIABLES_keys[k] \notin ColSet(df_hist)
    THEN Raise("KeyError")
    ELSE LET feat == _add_rolls(_add_lags(_add_time_features(df_hist), VARIABLES_keys, Lags))
         IN  iloc_last(dropna(feat))

----------------------------------------------------------------------------
(* ml/train_nldas_ml.py: the training table and its inference row.         *)

add_time_features(df) ==
    LET hour == [i \in 1..NRows(df) |-> Turns(HourOfDay(df.index[i]), 24)]
        doy == [i \in 1..NRows(df) |-> Turns(DayOfYear(df.index[i]), 366)]
    IN  Table(df.index, df.columns \o Fresh(df, TimeCols),
              [c \in ColSet(df) \cup Range(TimeCols) |->
                 IF c \in {"hour_sin", "hour_cos"} THEN hour
                 ELSE IF c \in {"doy_sin", "doy_cos"} THEN doy
                 ELSE df.data[c]])

add_lag_features(df, cols, lags) ==
    LET specs == LagSpecs(cols, lags)
        names == SpecNames(specs)
    IN  Table(df.index, df.columns \o Fresh(df, names),
              [c \in ColSet(df) \cup Range(names) |->
                 IF c \in Range(names)
                 THEN LET sp == specs[CHOOSE k \in 1..Len(specs) : names[k] = c]
                      IN  shift(df.data[sp.col], sp.lag)
                 ELSE df.data[c]])

add_rolls(feat) ==
    LET specs == RollSpecs(feat)
        names == SpecNames(specs)
    IN  Table(feat.index, feat.columns \o Fresh(feat, names),
              [c \in ColSet(feat) \cup Range(names) |->
                 IF c \in Range(names)
                 THEN LET sp == specs[CHOOSE k \in 1..Len(specs) : names[k] = c]
                      IN  rolling_mean(feat.data[sp.col], RollWindow, RollMinPeriods)
                 ELSE feat.data[c]])

will_rain_labels_nan_when_no_future(future, rain_threshold) ==
    [i \in 1..Len(future) |->
        IF IsNaN(future[i]) THEN NaN
        ELSE IF RGeq(future[i], rain_threshold) THEN Num(1) ELSE Num(0)]

will_rain_labels_strictly_above(future, rain_threshold) ==
    [i \in 1..Len(future) |->
        IF NotNa(future[i]) /\ ~RGeq(rain_threshold, future[i]) THEN Num(1) ELSE Num(0)]

\* (future >= rain_threshold).astype(int): a comparison with NaN is False.
will_rain_labels(future, rain_threshold) ==
    [i \in 1..Len(future) |->
        IF NotNa(future[i]) /\ RGeq(future[i], rain_threshold) THEN Num(1) ELSE Num(0)]

build_dataset(df_hourly, horizon_h, rain_threshold) ==
    IF \E k \in 1..NVars : VARIABLES_keys[k] \notin ColSet(df_hourly)
    THEN Raise("KeyError")
    ELSE LET feat == add_rolls(
                        add_lag_features(add_time_features(df_hourly), VARIABLES_keys, Lags))
             future == shift(df_hourly.data["Rainf"], -horizon_h)
             y == will_rain_labels(future, rain_threshold)
         IN  [ok |-> TRUE, df |-> dropna(AddColumn(feat, "will_rain", y))]

\* build_features_for_inference, from df_hist on.
features_for_inference(df_hist, horizon_h) ==
    LET built == build_dataset(df_hist, horizon_h, Rat(1, 10))
    IN  IF ~built.ok THEN built ELSE iloc_last(drop_column(built.df, "will_rain"))

----------------------------------------------------------------------------
(* The feature builders on hourly tables: tables without a missing value   *)
(* and with rain in one hour, tables with a hole in one column, and the    *)
(* 72-hour table with 0.5 of rain in hour 50.                              *)

MaxLen == 31            \* rows of the longest table but the 72-hour one

\* The table of L hours from hour 0 on: rainVal of rain in hour rainHour and
\* none in the others, and no value in column holeCol at the hours holeHours.
HourlyTable(L, rainHour, rainVal, holeCol, holeHours) ==
    Table([i \in 1..L |-> HourStart(i - 1)], VARIABLES_keys,
          [c \in Range(VARIABLES_keys) |->
             [i \in 1..L |->
                IF c = holeCol /\ (i - 1) \in holeHours THEN NaN
                ELSE IF c = "Rainf"
                     THEN (IF i - 1 = rainHour THEN rainVal ELSE Num(0))
                     ELSE Num(i + Len(c))]])

RainVals == {Rat(1, 20), Rat(1, 10), Rat(1, 2)}
Horizons == {1, 6}
HoleCols == {"Rainf", "Tair", "SoilM_0_100cm"}

FullTables ==
    {HourlyTable(L, r, v, "", {}) :
        L \in (MaxLen - 1)..MaxLen, r \in (MaxLen - 9)..(MaxLen - 1), v \in RainVals}

HoledTables ==
    {HourlyTable(MaxLen, MaxLen - 2, Rat(1, 2), c, H) :
        c \in HoleCols,
        H \in {{q} : q \in 0..(MaxLen - 1)} \cup {0..(MaxLen - 1)}
              \cup {{q, q + 1} : q \in (MaxLen - 3)..(MaxLen - 2)}}

ExampleTable == HourlyTable(72, 50, Rat(1, 2), "", {})

InitFeat ==
    /\ Idle
    /\ NoParserRun
    /\ NoPrediction
    /\ NoRange
    /\ NoAlignerRun
    /\ NoLongitudeRun
    /\ NoLagRun
    /\ NoAppRun
    /\ flaky = {}
    /\ server = Serving({}, FullDesc)
    /\ \/ arg_df \in {Some(t) : t \in FullTables \cup HoledTables} /\ arg_horizon \in Horizons
       \/ arg_df = Some(ExampleTable) /\ arg_horizon = 6
    /\ arg_threshold = Rat(1, 10)
    /\ Xy = None
    /\ X = None
    /\ X_one = None

procVars == <<pc, call, envVars, vi, attempt, last, requests, responses, frames,
              raw, df_all, err>>

\* build_dataset(df_hourly, horizon_h, rain_threshold) is called.
BuildDataset ==
    /\ NotNa(arg_df)
    /\ Xy = None
    /\ Xy' = Some(build_dataset(The(arg_df), arg_horizon, arg_threshold))
    /\ UNCHANGED <<procVars, parseVars, arg_df, arg_horizon, arg_threshold, X, X_one, predVars, rangeVars, alignVars, lonVars, lagVars, appVars>>

\* _build_features(df_hist, horizon_h) is called.
BuildFeatures ==
    /\ NotNa(arg_df)
    /\ X = None
    /\ X' = Some(_build_features(The(arg_df), arg_horizon))
    /\ UNCHANGED <<procVars, parseVars, arg_df, arg_horizon, arg_threshold, Xy, X_one, predVars, rangeVars, alignVars, lonVars, lagVars, appVars>>

\* build_features_for_inference has fetched df_hist and goes on.
BuildFeaturesForInference ==
    /\ NotNa(arg_df)
    /\ X_one = None
    /\ X_one' = Some(features_for_inference(The(arg_df), arg_horizon))
    /\ UNCHANGED <<procVars, parseVars, arg_df, arg_horizon, arg_threshold, Xy, X, predVars, rangeVars, alignVars, lonVars, lagVars, appVars>>

NextFeat ==
    \/ BuildDataset
    \/ BuildFeatures
    \/ BuildFeaturesForInference

SpecFeat == InitFeat /\ [][NextFeat]_vars

----------------------------------------------------------------------------
(* Claims about the feature builders.                                      *)

Built(o) == NotNa(o) /\ The(o).ok

\* The cell of column c of df in the row labelled with hour h, NaN when df
\* has no such row.
CellAtHour(df, c, h) ==
    IF \E r \in 1..NRows(df) : df.index[r] = HourStart(h)
    THEN df.data[c][CHOOSE r \in 1..NRows(df) : df.index[r] = HourStart(h)]
    ELSE NaN

IsExample == arg_df = Some(ExampleTable) /\ arg_horizon = 6 /\ arg_threshold = <<1, 10>>

C7_Original ==
    (Built(Xy) /\ NoMissing(The(arg_df)) /\ NRows(The(arg_df)) > 24 + arg_horizon) =>
      LET L == NRows(The(arg_df))
      IN  The(Xy).df.index =
             [r \in 1..(L - 24 - arg_horizon) |-> The(arg_df).index[24 + r]]

\* Row i of the hourly table df has every raw value, every lag and every
\* rolling mean.
FullyComputable(df, i) ==
    /\ \A k \in 1..NVars : Len(df.data[VARIABLES_keys[k]][i]) # 0
    /\ \A k \in 1..NVars : \A L \in {1, 3, 6, 24} :
          i - L >= 1 /\ Len(df.data[VARIABLES_keys[k]][i - L]) # 0
    /\ \A c \in {"Tair", "Qair", "Evap", "Qh", "Qg"} :
          Cardinality({j \in 1..i : j >= i - 5 /\ Len(df.data[c][j]) # 0}) >= 3

\* C8: when the table has a row with no missing raw, cyclical, lag or
\* rolling value, _build_features returns one row, the latest such row.
C8_LatestCompleteRow ==
    NotNa(X) =>
      LET df == The(arg_df)
          full == {i \in 1..NRows(df) : FullyComputable(df, i)}
      IN  full # {} =>
             LET i == CHOOSE i \in full : \A j \in full : j <= i
                 row == The(X).df
             IN  /\ The(X).ok
                 /\ NRows(row) = 1
                 /\ row.index[1] = df.index[i]
                 /\ \A k \in 1..NVars :
                       row.data[VARIABLES_keys[k]][1] = df.data[VARIABLES_keys[k]][i]

\* The last hour of the table has a hole: the row returned is an earlier one.
C8_Witness ==
    /\ Built(X)
    /\ NRows(The(X).df) = 1
    /\ NRows(The(arg_df)) > 25
    /\ The(X).df.index[1] < The(arg_df).index[NRows(The(arg_df))]

\* C10: for a table with a fully computable row, the row of _build_features
\* has the timestamp, the columns in their order and the values of the last
\* row of build_dataset without will_rain, which is the row that
\* build_features_for_inference returns, whatever the horizon.
C10_TrainServeSameRow ==
    Built(X) =>
      LET row == The(X).df
      IN  /\ NotNa(Xy) =>
                /\ The(Xy).ok
                /\ NRows(The(Xy).df) >= 1
                /\ LET out == The(Xy).df
                       n == NRows(out)
                   IN  /\ out.index[n] = row.index[1]
                       /\ out.columns = Append(row.columns, "will_rain")
                       /\ \A c \in Range(row.columns) : out.data[c][n] = row.data[c][1]
          /\ NotNa(X_one) =>
                /\ The(X_one).ok
                /\ The(X_one).df.index = row.index
                /\ The(X_one).df.columns = row.columns
                /\ \A c \in Range(row.columns) : The(X_one).df.data[c] = row.data[c]

\* The three builders ran on one table with horizon 6 and gave a row of the
\* 44 feature columns.
C10_Witness ==
    /\ Built(X)
    /\ Built(Xy)
    /\ Built(X_one)
    /\ arg_horizon = 6
    /\ Len(The(X).df.columns) = 44
    /\ The(X).df.index = <<The(arg_df).index[NRows(The(arg_df))]>>

----------------------------------------------------------------------------
(* ml/nldas_predictor.py: predict_rain_prob, from the call to the result,  *)
(* over windows of 49 hours of which Data Rods holds all, most or too     *)
(* little to build one feature row.                                        *)

LookbackHours == 48

\* strftime("%Y-%m-%dT%H"): the minutes are cut off.
strftime_hour(t) == HourStart(HourOf(t))

fillna_bfill(col) ==
    [i \in 1..Len(col) |->
        IF NotNa(col[i]) THEN col[i]
        ELSE LET S == {j \in (i + 1)..Len(col) : NotNa(col[j])}
             IN  IF S = {} THEN NaN ELSE col[CHOOSE j \in S : \A k \in S : j <= k]]

\* Series.fillna(method="ffill"): the last value before, however far back.
fillna_ffill(col) ==
    [i \in 1..Len(col) |->
        IF NotNa(col[i]) THEN col[i]
        ELSE LET j == LastValid(col, i)
             IN  IF j > 0 THEN col[j] ELSE NaN]

fillna_first_only(col, v) ==
    [i \in 1..Len(col) |->
        IF NotNa(col[i]) THEN col[i]
        ELSE IF \A j \in 1..(i - 1) : NotNa(col[j]) THEN v ELSE NaN]

\* Series.fillna(v).
fillna(col, v) == [i \in 1..Len(col) |-> IF NotNa(col[i]) THEN col[i] ELSE v]

_align_columns_in_input_order(Xin, feature_cols) ==
    LET InManifest(c) == c \in Range(feature_cols)
        cols == SelectSeq(Xin.columns, InManifest) \o Fresh(Xin, feature_cols)
        held(c) == IF c \in ColSet(Xin) THEN Xin.data[c]
                   ELSE [i \in 1..NRows(Xin) |-> NaN]
    IN  Table(Xin.index, cols,
              [c \in Range(cols) |-> fillna(fillna_ffill(held(c)), Num(0))])

\* _align_columns(X, feature_cols): the manifest's columns that X lacks are
\* added empty, the manifest's columns are selected in its order and the
\* missing cells are filled, forward first and then with 0.0.  The inline
\* alignment of main() in train_nldas_ml.py is the same code.
_align_columns(Xin, feature_cols) ==
    LET held(c) == IF c \in ColSet(Xin) THEN Xin.data[c]
                   ELSE [i \in 1..NRows(Xin) |-> NaN]
    IN  Table(Xin.index, feature_cols,
              [c \in Range(feature_cols) |-> fillna(fillna_ffill(held(c)), Num(0))])

\* Environment: nldas_features.txt as main() of train_nldas_ml.py writes it,
\* the columns of the training table but will_rain.
TrainedManifest ==
    VARIABLES_keys \o TimeCols \o SpecNames(LagSpecs(VARIABLES_keys, Lags))
        \o [k \in 1..Len(RollCols) |-> RollName(RollCols[k])]

\* Environment: what predict_proba may answer for the rain class.
Probas == {Num(0), Rat(1, 5), Rat(49, 100), Rat(1, 2), Rat(3, 5), Rat(9, 10), Num(1)}

will_rain_above_half_only(proba) == ~RGeq(Rat(1, 2), proba)

\* bool(proba >= 0.5)
will_rain(proba) == RGeq(proba, Rat(1, 2))

PredictRainProb_24h_window(lat, lon, when, horizon) ==
    /\ pc = "idle"
    /\ call' = [fn |-> "predict_rain_prob", lat |-> lat, lon |-> lon,
                start |-> strftime_hour(when - HourStart(24)),
                end |-> strftime_hour(when),
                when |-> when, horizon |-> horizon]
    /\ pc' = "get"
    /\ vi' = 1
    /\ attempt' = 0
    /\ last' = None
    /\ frames' = <<>>
    /\ UNCHANGED <<envVars, requests, responses, raw, df_all, err, parseVars, featVars, predVars, rangeVars, alignVars, lonVars, lagVars, appVars>>

\* predict_rain_prob(lat, lon, when_iso, horizon) is called: the window is
\* computed and _fetch_window starts on its first variable.
PredictRainProb(lat, lon, when, horizon) ==
    /\ pc = "idle"
    /\ call' = [fn |-> "predict_rain_prob", lat |-> lat, lon |-> lon,
                start |-> strftime_hour(when - HourStart(LookbackHours)),
                end |-> strftime_hour(when),
                when |-> when, horizon |-> horizon]
    /\ pc' = "get"
    /\ vi' = 1
    /\ attempt' = 0
    /\ last' = None
    /\ frames' = <<>>
    /\ UNCHANGED <<envVars, requests, responses, raw, df_all, err, parseVars, featVars, predVars, rangeVars, alignVars, lonVars, lagVars, appVars>>

\* X = _build_features(df_hist, horizon_h=horizon); its IndexError is not
\* caught.
BuildFeaturesOfWindow ==
    /\ pc = "features"
    /\ LET out == _build_features(The(df_all), call.horizon)
       IN  IF out.ok
           THEN /\ feat_X' = Some(out.df)
                /\ pc' = "load"
                /\ UNCHANGED err
           ELSE /\ pc' = "raised"
                /\ err' = Some(Exception(out.type, 0, <<>>))
                /\ UNCHANGED feat_X
    /\ UNCHANGED <<call, envVars, vi, attempt, last, requests, responses, frames,
                   raw, df_all, parseVars, featVars, artifacts, n_loads,
                   n_predicts, result, predictions, rangeVars, alignVars, lonVars, lagVars, appVars>>

\* pipe, feat_cols = _load_artifacts(model_path, cols_path): both files are
\* read.
LoadArtifacts ==
    /\ pc = "load"
    /\ artifacts' = Some([pipe |-> "nldas_rf.joblib", feat_cols |-> TrainedManifest])
    /\ n_loads' = n_loads + 1
    /\ pc' = "predict"
    /\ UNCHANGED <<call, envVars, vi, attempt, last, requests, responses, frames,
                   raw, df_all, err, parseVars, featVars, feat_X, n_predicts, result,
                   predictions, rangeVars, alignVars, lonVars, lagVars, appVars>>

\* load(model_path) or open(cols_path) finds no file.
LoadArtifactsRaises ==
    /\ pc = "load"
    /\ pc' = "raised"
    /\ err' = Some(Exception("FileNotFoundError", 0, <<>>))
    /\ UNCHANGED <<call, envVars, vi, attempt, last, requests, responses, frames,
                   raw, df_all, parseVars, featVars, predVars, rangeVars, alignVars, lonVars, lagVars, appVars>>

\* X = _align_columns(X, feat_cols), the model answers proba, and the
\* result is returned.
PredictProba ==
    /\ pc = "predict"
    /\ \E proba \in Probas :
          /\ feat_X' = Some(_align_columns(The(feat_X), The(artifacts).feat_cols))
          /\ n_predicts' = n_predicts + 1
          /\ predictions' = Append(predictions,
                                   [pipe |-> The(artifacts).pipe,
                                    row |-> The(feat_X'), proba |-> proba])
          /\ result' = Some([lat |-> call.lat, lon |-> call.lon,
                             when_utc |-> call.when,
                             horizon_hours |-> call.horizon,
                             prob_rain_next_h |-> proba,
                             will_rain |-> will_rain(proba)])
    /\ pc' = "returned"
    /\ UNCHANGED <<call, envVars, vi, attempt, last, requests, responses, frames,
                   raw, df_all, err, parseVars, featVars, artifacts, n_loads,
                   rangeVars, alignVars, lonVars, lagVars, appVars>>

\* What Data Rods holds of a variable over the window: all but the last
\* hour, all but the last three hours, one hour in four, rows without a
\* readable value, nothing before the thirtieth hour, or nothing of the
\* last 24 hours.
PredictDescs ==
    {[missing |-> {LookbackHours}, junk |-> {}, extra |-> "none"],
     [missing |-> (LookbackHours - 2)..LookbackHours, junk |-> {}, extra |-> "none"],
     [missing |-> {o \in 0..LookbackHours : o % 4 # 0}, junk |-> {}, extra |-> "none"],
     [missing |-> {}, junk |-> 0..LookbackHours, extra |-> "none"],
     [missing |-> 0..29, junk |-> {}, extra |-> "none"],
     [missing |-> (LookbackHours - 23)..LookbackHours, junk |-> {}, extra |-> "none"]}

PredictGapped == {{"Rainf"}, {"Evap"}, AllVariables}

Whens == {HourStart(100), HourStart(100) + 1}

InitPredict ==
    /\ Idle
    /\ NoParserRun
    /\ NoFeatureRun
    /\ NoPrediction
    /\ NoRange
    /\ NoAlignerRun
    /\ NoLongitudeRun
    /\ NoLagRun
    /\ NoAppRun
    /\ flaky \in {{}, {"Qg"}}
    /\ server \in {Serving({}, FullDesc)}
                     \cup {Serving(G, d) : G \in PredictGapped, d \in PredictDescs}

CallPredictRainProb ==
    \E p \in Points : \E when \in Whens : PredictRainProb(p[1], p[2], when, 6)

NextPredict ==
    \/ CallPredictRainProb
    \/ Get200
    \/ GetNon200
    \/ GetRaises
    \/ BuildFeaturesOfWindow
    \/ LoadArtifacts
    \/ LoadArtifactsRaises
    \/ PredictProba

SpecPredict == InitPredict /\ [][NextPredict]_vars

----------------------------------------------------------------------------
(* Claims about predict_rain_prob.                                         *)

\* predict_rain_prob has built its features on a window without a row that
\* has every raw value, lag and rolling mean.
NoFullRow ==
    /\ call.fn = "predict_rain_prob"
    /\ pc # "features"
    /\ NotNa(df_all)
    /\ \A i \in 1..NRows(The(df_all)) : ~FullyComputable(The(df_all), i)

\* C9 as stated: when the 48-hour window has no row with every feature,
\* predict_rain_prob fails with InsufficientHistoryError, an error of its
\* own, returns nothing, reads no artifact and does not call the model.
C9_Original ==
    NoFullRow =>
      /\ pc = "raised"
      /\ NotNa(err)
      /\ The(err).type = "InsufficientHistoryError"
      /\ result = None
      /\ n_loads = 0
      /\ n_predicts = 0

\* C14: in a result of predict_rain_prob, will_rain is true exactly when
\* prob_rain_next_h is at least 0.5, prob_rain_next_h is what the loaded
\* model answered for the aligned row, and lat, lon, when_utc and
\* horizon_hours are the call's arguments.
C14_ResultOfPrediction ==
    (call.fn = "predict_rain_prob" /\ Len(result) # 0) =>
      LET r == result[1]
          n == Len(predictions)
      IN  /\ r.will_rain = (2 * r.prob_rain_next_h[1] >= r.prob_rain_next_h[2])
          /\ n = 1
          /\ predictions[n].proba = r.prob_rain_next_h
          /\ predictions[n].pipe = artifacts[1].pipe
          /\ predictions[n].row = feat_X[1]
          /\ predictions[n].row.columns = artifacts[1].feat_cols
          /\ Len(predictions[n].row.index) = 1
          /\ r.lat = call.lat
          /\ r.lon = call.lon
          /\ r.when_utc = call.when
          /\ r.horizon_hours = call.horizon

\* The model answered exactly 0.5 and the result says it will rain.
C14_Witness ==
    /\ call.fn = "predict_rain_prob"
    /\ pc = "returned"
    /\ NotNa(result)
    /\ The(result).prob_rain_next_h = <<1, 2>>
    /\ The(result).will_rain = TRUE

----------------------------------------------------------------------------
(* The schema aligner on small tables: every table of up to MaxRows rows   *)
(* over a few column lists, aligned to every manifest of distinct names    *)
(* among three, and aligned once more.                                     *)

AlignCells == {NaN, Num(1), Num(2)}
AlignColumnLists == {<<>>, <<"Tair">>, <<"extra", "Tair">>, <<"Tair", "Rainf">>}
AlignNames == {"Rainf", "Tair", "hour_sin"}

\* The lists of distinct names among S.
Manifests(S) ==
    UNION {{m \in [1..n -> S] : \A a, b \in 1..n : a # b => m[a] # m[b]} :
              n \in 0..Cardinality(S)}

\* The tables of n rows with the columns cols: the first column holds any
\* cells, the others a value or none.
AlignTables(cols, n) ==
    {Table([i \in 1..n |-> HourStart(i)], cols, d) :
        d \in {f \in [Range(cols) -> [1..n -> AlignCells]] :
                  \A k \in 2..Len(cols) : \A i \in 1..n : f[cols[k]][i] # Num(2)}}

InitAlign ==
    /\ Idle
    /\ NoParserRun
    /\ NoFeatureRun
    /\ NoPrediction
    /\ NoRange
    /\ NoLongitudeRun
    /\ NoLagRun
    /\ NoAppRun
    /\ flaky = {}
    /\ server = Serving({}, FullDesc)
    /\ \E cols \in AlignColumnLists : \E n \in 0..MaxRows :
          align_X \in {Some(t) : t \in AlignTables(cols, n)}
    /\ align_cols \in Manifests(AlignNames)
    /\ aligned = None
    /\ realigned = None

\* X = _align_columns(X, feat_cols)
AlignColumns ==
    /\ NotNa(align_X)
    /\ aligned = None
    /\ aligned' = Some(_align_columns(The(align_X), align_cols))
    /\ UNCHANGED <<procVars, parseVars, featVars, predVars, rangeVars, lonVars, lagVars, appVars,
                   align_X, align_cols, realigned>>

\* The aligned table is aligned to the same manifest once more.
AlignColumnsAgain ==
    /\ NotNa(aligned)
    /\ realigned = None
    /\ realigned' = Some(_align_columns(The(aligned), align_cols))
    /\ UNCHANGED <<procVars, parseVars, featVars, predVars, rangeVars, lonVars, lagVars, appVars,
                   align_X, align_cols, aligned>>

NextAlign ==
    \/ AlignColumns
    \/ AlignColumnsAgain

SpecAlign == InitAlign /\ [][NextAlign]_vars

----------------------------------------------------------------------------
(* Claims about the schema aligner.                                        *)

\* C11: the aligner returns a table with exactly the manifest's columns in
\* the manifest's order, the rows of its input, and no missing value.
C11_AlignedToManifest ==
    NotNa(aligned) =>
      LET a == The(aligned)
      IN  /\ a.columns = align_cols
          /\ DOMAIN a.data = {align_cols[k] : k \in 1..Len(align_cols)}
          /\ a.index = The(align_X).index
          /\ \A c \in DOMAIN a.data :
                /\ Len(a.data[c]) = Len(a.index)
                /\ \A i \in 1..Len(a.index) : Len(a.data[c][i]) # 0

\* A table with a column outside the manifest, without one of the
\* manifest's columns and with a missing cell has been aligned.
C11_Witness ==
    /\ NotNa(aligned)
    /\ The(align_X).columns = <<"extra", "Tair">>
    /\ align_cols = <<"Tair", "Rainf">>
    /\ NRows(The(align_X)) = MaxRows
    /\ \E i \in 1..MaxRows : The(align_X).data["Tair"][i] = NaN
    /\ The(aligned).columns = <<"Tair", "Rainf">>

\* C12: aligning the aligned table to the same manifest gives the same
\* table: columns, their order, rows and values.
C12_AlignIdempotent ==
    NotNa(realigned) =>
      /\ The(realigned).columns = The(aligned).columns
      /\ The(realigned).index = The(aligned).index
      /\ The(realigned).data = The(aligned).data

\* A table whose alignment filled cells and added a column has been aligned
\* twice.
C12_Witness ==
    /\ NotNa(realigned)
    /\ NRows(The(align_X)) >= 2
    /\ The(align_X).columns = <<"Tair">>
    /\ \A i \in 1..NRows(The(align_X)) : The(align_X).data["Tair"][i] = NaN
    /\ Len(align_cols) = 3
    /\ The(realigned) = The(aligned)

\* C13: a cell of a manifest column holds the input's value of that column
\* in the latest row, up to its own, that has one, and 0.0 when the input
\* has no such row or no such column; so a table with none of the
\* manifest's columns is aligned to a table of zeros.
C13_ForwardThenZero ==
    NotNa(aligned) =>
      LET x == The(align_X)
          a == The(aligned)
      IN  /\ \A k \in 1..Len(align_cols) : \A i \in 1..Len(a.index) :
                LET c == align_cols[k]
                    seen == IF c \in {x.columns[q] : q \in 1..Len(x.columns)}
                            THEN {j \in 1..i : Len(x.data[c][j]) # 0}
                            ELSE {}
                IN  a.data[c][i] =
                       IF seen = {} THEN <<0, 1>>
                       ELSE x.data[c][CHOOSE j \in seen : \A q \in seen : q <= j]
          /\ (\A k \in 1..Len(align_cols) : \A q \in 1..Len(x.columns) :
                 align_cols[k] # x.columns[q]) =>
                \A k \in 1..Len(align_cols) : \A i \in 1..Len(a.index) :
                   a.data[align_cols[k]][i] = <<0, 1>>

\* A table that holds none of the two manifest columns has been aligned to
\* a table of zeros.
C13_Witness ==
    /\ NotNa(aligned)
    /\ The(align_X).columns = <<"Tair">>
    /\ NRows(The(align_X)) = 2
    /\ align_cols = <<"Rainf", "hour_sin">>
    /\ \A c \in {"Rainf", "hour_sin"} : The(aligned).data[c] = <<<<0, 1>>, <<0, 1>>>>

----------------------------------------------------------------------------
(* ml/nldas_predictor.py: predict_rain_prob_range.  Each turn of its loop  *)
(* is a call of predict_rain_prob, which runs by the actions above; an     *)
(* exception of that call is not caught, so the range call ends with it.   *)

date_range_end_excluded(start, end, freq) ==
    IF end <= start THEN <<>>
    ELSE [k \in 1..(((end - start - 1) \div freq) + 1) |-> start + (k - 1) * freq]

\* pd.date_range(start, end, freq=freq): start, start + freq, ... up to end.
date_range(start, end, freq) ==
    IF end < start THEN <<>>
    ELSE [k \in 1..(((end - start) \div freq) + 1) |-> start + (k - 1) * freq]

\* pd.DataFrame(rows, columns=["time", "prob_rain_next_h", "will_rain"])
\* .set_index("time")
RangeTable(rs) ==
    Table([k \in 1..Len(rs) |-> rs[k][1]], <<"prob_rain_next_h", "will_rain">>,
          [c \in {"prob_rain_next_h", "will_rain"} |->
             [k \in 1..Len(rs) |-> IF c = "will_rain" THEN rs[k][3] ELSE rs[k][2]]])

\* res = predict_rain_prob(lat, lon, t.strftime("%Y-%m-%dT%H"), horizon, ...):
\* a new call with its own locals; it starts on its window's first variable.
CallPredictor(r, t) ==
    LET when == strftime_hour(t)
    IN  /\ call' = [fn |-> "predict_rain_prob", lat |-> r.lat, lon |-> r.lon,
                    start |-> strftime_hour(when - HourStart(LookbackHours)),
                    end |-> strftime_hour(when),
                    when |-> when, horizon |-> r.horizon]
        /\ calls' = Append(calls, [lat |-> r.lat, lon |-> r.lon, when |-> when,
                                   horizon |-> r.horizon])
        /\ pc' = "get"
        /\ vi' = 1
        /\ attempt' = 0
        /\ last' = None
        /\ frames' = <<>>
        /\ raw' = None
        /\ df_all' = None
        /\ feat_X' = None
        /\ artifacts' = None
        /\ result' = None

\* predict_rain_prob_range(lat, lon, start_iso, end_iso, freq, horizon) is
\* called: `times` is computed and the loop starts, or, with no timestamp,
\* the empty table is returned.
PredictRainProbRange(lat, lon, start, end, freq, horizon) ==
    /\ pc = "idle"
    /\ rng = None
    /\ LET r == [lat |-> lat, lon |-> lon, start |-> start, end |-> end,
                 freq |-> freq, horizon |-> horizon,
                 times |-> date_range(start, end, freq)]
       IN  /\ rng' = Some(r)
           /\ range_rows' = <<>>
           /\ IF Len(r.times) = 0
              THEN /\ ti' = 0
                   /\ range_out' = Some(RangeTable(<<>>))
                   /\ pc' = "range_returned"
                   /\ UNCHANGED <<call, calls, vi, attempt, last, frames, raw, df_all,
                                  feat_X, artifacts, result>>
              ELSE /\ ti' = 1
                   /\ CallPredictor(r, r.times[1])
                   /\ UNCHANGED range_out
    /\ UNCHANGED <<envVars, requests, responses, err, parseVars, featVars,
                   n_loads, n_predicts, predictions, alignVars, lonVars, lagVars, appVars>>

RangeNext_skips_failed_timestamp ==
    /\ NotNa(rng)
    /\ pc \in {"returned", "raised"}
    /\ LET r == The(rng)
           rs == IF pc = "raised" THEN range_rows
                 ELSE Append(range_rows, <<r.times[ti], The(result).prob_rain_next_h,
                                           The(result).will_rain>>)
       IN  /\ range_rows' = rs
           /\ IF ti < Len(r.times)
              THEN /\ ti' = ti + 1
                   /\ CallPredictor(r, r.times[ti + 1])
                   /\ UNCHANGED range_out
              ELSE /\ range_out' = Some(RangeTable(rs))
                   /\ pc' = "range_returned"
                   /\ UNCHANGED <<ti, call, calls, vi, attempt, last, frames, raw, df_all,
                                  feat_X, artifacts, result>>
    /\ UNCHANGED <<rng, envVars, requests, responses, err, parseVars, featVars,
                   n_loads, n_predicts, predictions, alignVars, lonVars, lagVars, appVars>>

RangeNext_keeps_window ==
    /\ NotNa(rng)
    /\ pc = "returned"
    /\ LET r == The(rng)
           rs == Append(range_rows, <<r.times[ti], The(result).prob_rain_next_h,
                                      The(result).will_rain>>)
       IN  /\ range_rows' = rs
           /\ IF ti < Len(r.times)
              THEN /\ ti' = ti + 1
                   /\ calls' = Append(calls, [lat |-> r.lat, lon |-> r.lon,
                                              when |-> strftime_hour(r.times[ti + 1]),
                                              horizon |-> r.horizon])
                   /\ pc' = "features"
                   /\ feat_X' = None
                   /\ artifacts' = None
                   /\ result' = None
                   /\ UNCHANGED <<range_out, call, vi, attempt, last, frames, raw, df_all>>
              ELSE /\ range_out' = Some(RangeTable(rs))
                   /\ pc' = "range_returned"
                   /\ UNCHANGED <<ti, call, calls, vi, attempt, last, frames, raw, df_all,
                                  feat_X, artifacts, result>>
    /\ UNCHANGED <<rng, envVars, requests, responses, err, parseVars, featVars,
                   n_loads, n_predicts, predictions, alignVars, lonVars, lagVars, appVars>>

\* predict_rain_prob has returned `res` to the loop: its row is appended,
\* and the loop calls the predictor for the next timestamp or, after the
\* last, the table is built and returned.
RangeNext ==
    /\ NotNa(rng)
    /\ pc = "returned"
    /\ LET r == The(rng)
           rs == Append(range_rows, <<r.times[ti], The(result).prob_rain_next_h,
                                      The(result).will_rain>>)
       IN  /\ range_rows' = rs
           /\ IF ti < Len(r.times)
              THEN /\ ti' = ti + 1
                   /\ CallPredictor(r, r.times[ti + 1])
                   /\ UNCHANGED range_out
              ELSE /\ range_out' = Some(RangeTable(rs))
                   /\ pc' = "range_returned"
                   /\ UNCHANGED <<ti, call, calls, vi, attempt, last, frames, raw, df_all,
                                  feat_X, artifacts, result>>
    /\ UNCHANGED <<rng, envVars, requests, responses, err, parseVars, featVars,
                   n_loads, n_predicts, predictions, alignVars, lonVars, lagVars, appVars>>

\* The ranges asked for, from hour 100 on: none (the end before the start),
\* three hourly timestamps with the end on the last or past it, two
\* timestamps off the hour, three timestamps a tick apart, and two
\* timestamps three hours apart.  With a variable whose GETs may fail, the
\* ranges of at most two timestamps.
RangeStart == HourStart(100)

RangeArgs ==
    {[start |-> RangeStart, end |-> RangeStart - 1, freq |-> HourStart(1)],
     [start |-> RangeStart, end |-> RangeStart + HourStart(2), freq |-> HourStart(1)],
     [start |-> RangeStart, end |-> RangeStart + HourStart(2) + 1, freq |-> HourStart(1)],
     [start |-> RangeStart + 1, end |-> RangeStart + 1 + HourStart(1), freq |-> HourStart(1)],
     [start |-> RangeStart, end |-> RangeStart + 2, freq |-> 1],
     [start |-> RangeStart, end |-> RangeStart + HourStart(3), freq |-> HourStart(3)]}

SparseDesc ==
    [missing |-> {o \in 0..LookbackHours : o % 4 # 0}, junk |-> {}, extra |-> "none"]

InitRange ==
    /\ Idle
    /\ NoParserRun
    /\ NoFeatureRun
    /\ NoPrediction
    /\ NoRange
    /\ NoAlignerRun
    /\ NoLongitudeRun
    /\ NoLagRun
    /\ NoAppRun
    /\ flaky \in {{}, {"Qg"}}
    /\ server \in {Serving({}, FullDesc), Serving({"Rainf"}, SparseDesc)}

CallPredictRainProbRange ==
    \E p \in Points : \E a \in RangeArgs :
       /\ flaky = {} \/ Len(date_range(a.start, a.end, a.freq)) <= 2
       /\ PredictRainProbRange(p[1], p[2], a.start, a.end, a.freq, 6)

NextRange ==
    \/ CallPredictRainProbRange
    \/ RangeNext
    \/ Get200
    \/ GetNon200
    \/ GetRaises
    \/ BuildFeaturesOfWindow
    \/ LoadArtifacts
    \/ LoadArtifactsRaises
    \/ PredictProba

SpecRange == InitRange /\ [][NextRange]_vars

----------------------------------------------------------------------------
(* Claims about predict_rain_prob_range.                                   *)

\* The timestamps start + k * freq up to end of the running range call.
RangeStamps ==
    {t \in The(rng).start..The(rng).end : (t - The(rng).start) % The(rng).freq = 0}

\* The k-th of them, in ascending order.
Stamp(k) == CHOOSE t \in RangeStamps : Cardinality({u \in RangeStamps : u < t}) = k - 1

ExampleProbas == <<<<1, 5>>, <<3, 5>>, <<9, 10>>>>

\* C16: the range call makes its k-th call of the predictor for the k-th
\* timestamp start + k * freq <= end, given to the hour, with the range's
\* lat, lon and horizon; when it returns it has made one call per timestamp
\* and its table has one row per timestamp, in ascending order, row k with
\* the probability the model answered in the k-th call and its decision;
\* the answers 0.2, 0.6, 0.9 over 3 hourly timestamps give False, True, True.
C16_OneCallPerTimestamp ==
    Len(rng) # 0 =>
      LET N == Cardinality(RangeStamps)
      IN  /\ Len(calls) <= N
          /\ \A k \in 1..Len(calls) :
                /\ calls[k].when = (Stamp(k) \div TicksPerHour) * TicksPerHour
                /\ calls[k].lat = rng[1].lat
                /\ calls[k].lon = rng[1].lon
                /\ calls[k].horizon = rng[1].horizon
          /\ pc = "range_returned" =>
                /\ Len(calls) = N
                /\ Len(predictions) = N
                /\ Len(range_out) # 0
                /\ range_out[1].index = [k \in 1..N |-> Stamp(k)]
                /\ range_out[1].data["prob_rain_next_h"]
                      = [k \in 1..N |-> predictions[k].proba]
                /\ range_out[1].data["will_rain"]
                      = [k \in 1..N |->
                           2 * predictions[k].proba[1] >= predictions[k].proba[2]]
                /\ ([k \in 1..N |-> predictions[k].proba] = ExampleProbas
                      => range_out[1].data["will_rain"] = <<FALSE, TRUE, TRUE>>)

\* The range of three hourly timestamps, its end on the last one, has
\* returned the table of the answers 0.2, 0.6, 0.9.
C16_Witness ==
    /\ pc = "range_returned"
    /\ NotNa(rng)
    /\ The(rng).freq = TicksPerHour
    /\ The(rng).end = The(rng).start + 2 * TicksPerHour
    /\ NRows(The(range_out)) = 3
    /\ The(range_out).index[3] = The(rng).end
    /\ The(range_out).data["prob_rain_next_h"] = ExampleProbas
    /\ The(range_out).data["will_rain"] = <<FALSE, TRUE, TRUE>>

\* C17: once a prediction of the range has failed, the range call has ended
\* with that error: no table is returned, the rows are those of the
\* timestamps before the failed one and no call was made for a later one.
C17_FailurePropagates ==
    (Len(rng) # 0 /\ (Len(err) # 0 \/ pc = "raised")) =>
      /\ pc = "raised"
      /\ Len(err) # 0
      /\ range_out = <<>>
      /\ Len(calls) = ti
      /\ Len(range_rows) = ti - 1
      /\ result = <<>>

\* The second of three predictions has failed.
C17_Witness ==
    /\ NotNa(rng)
    /\ pc = "raised"
    /\ NotNa(err)
    /\ Len(The(rng).times) = 3
    /\ ti = 2
    /\ Len(range_rows) = 1
    /\ Len(calls) = 2
    /\ range_out = None

\* The places in `requests` where a fetcher call starts: consecutive calls
\* of the fetcher differ in their variable, its retries repeat its GET.
FetchStarts ==
    {k \in 1..Len(requests) : k = 1 \/ requests[k] # requests[k - 1]}

\* C18: a range call that returns for N timestamps has made 7 * N fetcher
\* calls, the 7 variables in order with the window of the first call, then
\* with the window of the second, and so on, in 7 * N to 21 * N GETs.
C18_EveryCallFetchesItsWindow ==
    (Len(rng) # 0 /\ pc = "range_returned") =>
      LET N == Len(rng[1].times)
          starts == FetchStarts
      IN  /\ Cardinality(starts) = 7 * N
          /\ Len(requests) >= 7 * N
          /\ Len(requests) <= 21 * N
          /\ \A k \in starts :
                LET j == Cardinality({q \in starts : q < k})
                    hour == (rng[1].times[(j \div 7) + 1] \div TicksPerHour) * TicksPerHour
                IN  /\ requests[k].variable = VARIABLES_id(VARIABLES_keys[(j % 7) + 1])
                    /\ requests[k].startDate = hour - 48 * TicksPerHour
                    /\ requests[k].endDate = hour

\* The range of three hourly timestamps, whose windows overlap, has
\* returned after 21 GETs.
C18_Witness ==
    /\ pc = "range_returned"
    /\ NotNa(rng)
    /\ The(rng).freq = TicksPerHour
    /\ Len(The(rng).times) = 3
    /\ Len(requests) = 21
    /\ requests[8].startDate < requests[1].endDate

\* C19 as stated: within a range call the artifact files are read once,
\* and the manifest that was loaded is never modified.
C19_Original ==
    Len(rng) # 0 =>
      /\ n_loads <= 1
      /\ Len(artifacts) # 0 => artifacts[1].feat_cols = TrainedManifest

----------------------------------------------------------------------------
(* ml/train_nldas_ml.py and ml/example_predict.py: the longitude           *)
(* conversions, on every longitude of [-180, 180] that is a multiple of    *)
(* 1 / LonDenominator of a degree, and on -58.4.                           *)

LonDenominator == 2


\* x % m for a float x and a positive whole m: the result is in [0, m).
RMod(x, m) == Rat(x[1] % (m * x[2]), x[2])

\* (lon + 360.0) % 360.0
lon_to_0360(lon) == RMod(RAdd(lon, Num(360)), 360)

lon_to_180_unshifted(lon) == RSub(RMod(lon, 360), Num(180))

\* ((lon + 180.0) % 360.0) - 180.0
lon_to_180(lon) == RSub(RMod(RAdd(lon, Num(180)), 360), Num(180))

Longitudes ==
    {Rat(n, LonDenominator) : n \in (-180 * LonDenominator)..(180 * LonDenominator)}
        \cup {Rat(-292, 5)}

InitLon ==
    /\ Idle
    /\ NoParserRun
    /\ NoFeatureRun
    /\ NoPrediction
    /\ NoRange
    /\ NoAlignerRun
    /\ NoLagRun
    /\ NoAppRun
    /\ flaky = {}
    /\ server = Serving({}, FullDesc)
    /\ lon_in \in {Some(x) : x \in Longitudes}
    /\ lon_0360 = None
    /\ lon_180 = None

\* lon_to_0360(lon) is called.
LonTo0360 ==
    /\ NotNa(lon_in)
    /\ lon_0360 = None
    /\ lon_0360' = Some(lon_to_0360(The(lon_in)))
    /\ UNCHANGED <<procVars, parseVars, featVars, predVars, rangeVars, alignVars,
                   lon_in, lon_180, lagVars, appVars>>

\* lon_to_180 is called with what lon_to_0360 returned.
LonTo180 ==
    /\ NotNa(lon_0360)
    /\ lon_180 = None
    /\ lon_180' = Some(lon_to_180(The(lon_0360)))
    /\ UNCHANGED <<procVars, parseVars, featVars, predVars, rangeVars, alignVars,
                   lon_in, lon_0360, lagVars, appVars>>

NextLon ==
    \/ LonTo0360
    \/ LonTo180

SpecLon == InitLon /\ [][NextLon]_vars

----------------------------------------------------------------------------
(* Claims about the longitude conversions.                                 *)

\* C20 as stated: for every longitude x of [-180, 180], lon_to_0360(x) is
\* in [0, 360), and lon_to_180 of it is in [-180, 180] and equal to x.
C20_Original ==
    /\ Len(lon_0360) # 0 =>
          /\ lon_0360[1][1] >= 0
          /\ lon_0360[1][1] < 360 * lon_0360[1][2]
    /\ Len(lon_180) # 0 =>
          /\ lon_180[1][1] >= -180 * lon_180[1][2]
          /\ lon_180[1][1] <= 180 * lon_180[1][2]
          /\ lon_180[1] = lon_in[1]

\* C20: for every longitude x of [-180, 180], lon_to_0360(x) is in
\* [0, 360), and lon_to_180 of it is in [-180, 180): it is x when x < 180,
\* and -180 when x = 180.
C20_RoundTripBelow180 ==
    /\ Len(lon_0360) # 0 =>
          /\ lon_0360[1][1] >= 0
          /\ lon_0360[1][1] < 360 * lon_0360[1][2]
    /\ Len(lon_180) # 0 =>
          /\ lon_180[1][1] >= -180 * lon_180[1][2]
          /\ lon_180[1][1] < 180 * lon_180[1][2]
          /\ lon_in[1][1] < 180 * lon_in[1][2] => lon_180[1] = lon_in[1]
          /\ lon_in[1] = <<180, 1>> => lon_180[1] = <<-180, 1>>

\* -58.4 went to 301.6 and came back.
C20_Witness ==
    /\ lon_in = <<(<<-292, 5>>)>>
    /\ lon_0360 = <<(<<1508, 5>>)>>
    /\ lon_180 = <<(<<-292, 5>>)>>

----------------------------------------------------------------------------
(* The lag columns of the two feature builders, on the tables of the       *)
(* feature runs.                                                           *)

\* feat = _add_lags(feat, list(VARIABLES.keys()), lags=(1,3,6,24)), feat
\* being the table with its time features.
AddLags ==
    /\ NotNa(arg_df)
    /\ lagged = None
    /\ lagged' = Some(_add_lags(_add_time_features(The(arg_df)), VARIABLES_keys, Lags))
    /\ UNCHANGED <<procVars, parseVars, featVars, predVars, rangeVars, alignVars,
                   lonVars, lagged_train, appVars>>

\* feat = add_lag_features(feat, cols=list(VARIABLES.keys()), lags=(1, 3, 6, 24)),
\* feat being the table with its time features.
AddLagFeatures ==
    /\ NotNa(arg_df)
    /\ lagged_train = None
    /\ lagged_train' = Some(add_lag_features(add_time_features(The(arg_df)), VARIABLES_keys, Lags))
    /\ UNCHANGED <<procVars, parseVars, featVars, predVars, rangeVars, alignVars,
                   lonVars, lagged, appVars>>

NextLags ==
    \/ AddLags
    \/ AddLagFeatures

SpecLags == InitFeat /\ [][NextLags]_vars

----------------------------------------------------------------------------
(* Claims about the lag columns.                                           *)

\* t is the table df with its lag columns: every raw variable v and lag N
\* has a column v_lagNh whose row i is the value of v at row i - N, and is
\* missing in the first N rows; 28 columns came on top of the raw ones and
\* the 4 time features, and the raw columns and the index are those of df.
HasLagColumns(t, df) ==
    /\ t.index = df.index
    /\ Len(t.columns) = Len(df.columns) + 4 + 28
    /\ \A k \in 1..Len(df.columns) :
          /\ t.columns[k] = df.columns[k]
          /\ t.data[df.columns[k]] = df.data[df.columns[k]]
    /\ \A v \in {"Rainf", "Tair", "Qair", "Evap", "Qh", "Qg", "SoilM_0_100cm"} :
       \A N \in {1, 3, 6, 24} :
          LET name == v \o "_lag" \o ToString(N) \o "h" IN
          /\ \E k \in (Len(df.columns) + 5)..Len(t.columns) : t.columns[k] = name
          /\ \A i \in 1..Len(df.index) :
                t.data[name][i] = IF i > N THEN df.data[v][i - N] ELSE <<>>

\* C21: for each raw variable v, each lag N of {1, 3, 6, 24} and each row i
\* (counted from 0), column v_lagNh at row i is the value of v at row i - N
\* when i >= N and missing when i < N; exactly 28 lag columns are added and
\* the raw columns are unchanged, in the inference builder and in the
\* training builder alike.
C21_LagColumns ==
    /\ Len(lagged) # 0 => HasLagColumns(lagged[1], arg_df[1])
    /\ Len(lagged_train) # 0 => HasLagColumns(lagged_train[1], arg_df[1])

\* Both builders added their lags to a table in which Tair has no value in
\* hour 4: Tair_lag3h has none in hour 7, and Tair_lag24h starts in hour 24.
C21_Witness ==
    /\ Len(lagged) # 0
    /\ Len(lagged_train) # 0
    /\ lagged[1].data["Tair"][5] = <<>>
    /\ lagged[1].data["Tair_lag3h"][8] = <<>>
    /\ lagged[1].data["Tair_lag3h"][9] # <<>>
    /\ lagged[1].data["Tair_lag24h"][24] = <<>>
    /\ lagged[1].data["Tair_lag24h"][25] # <<>>
    /\ lagged_train[1].data["Tair_lag24h"] = lagged[1].data["Tair_lag24h"]

----------------------------------------------------------------------------
(* models/obtener_data.py: get_time_series, one action per GET.            *)

ObtenerIterations == 5

\* The 200 answers of the environment to that fetcher.
ObtenerBodies == {Body(0), Body(HeaderRow + 2)}

InitObtener ==
    /\ Idle
    /\ NoParserRun
    /\ NoFeatureRun
    /\ NoPrediction
    /\ NoRange
    /\ NoAlignerRun
    /\ NoLongitudeRun
    /\ NoLagRun
    /\ NoAppRun
    /\ flaky = {}
    /\ server = Serving({}, FullDesc)

\* get_time_series(start_date, end_date, latitude, longitude, variable) is
\* called: iteration = 0, done = False.
ObtenerCall ==
    /\ od_pc = "idle"
    /\ od_pc' = "loop"
    /\ od_iteration' = 0
    /\ od_done' = FALSE
    /\ od_responses' = <<>>
    /\ od_ret' = None
    /\ UNCHANGED <<procVars, parseVars, featVars, predVars, rangeVars, alignVars,
                   lonVars, lagVars, climateVars, geoVars, wpVars>>

\* r = requests.get(full_url) answers 200: done = True, the loop ends and
\* r.text is returned.
ObtenerGet200 ==
    /\ od_pc = "loop"
    /\ ~od_done /\ od_iteration < ObtenerIterations
    /\ \E text \in ObtenerBodies :
          /\ od_responses' = Append(od_responses, [status |-> StatusOK, text |-> text])
          /\ od_ret' = Some([ok |-> TRUE, text |-> text])
    /\ od_done' = TRUE
    /\ od_pc' = "returned"
    /\ UNCHANGED <<procVars, parseVars, featVars, predVars, rangeVars, alignVars,
                   lonVars, lagVars, climateVars, geoVars, wpVars, od_iteration>>

\* r = requests.get(full_url) answers another status: iteration += 1, and
\* the loop goes round again or, when `iteration < 5` fails, the call raises
\* Exception(f"Error code {r.status_code} from url {full_url} : {r.text}").
ObtenerGetNon200 ==
    /\ od_pc = "loop"
    /\ ~od_done /\ od_iteration < ObtenerIterations
    /\ \E r \in ErrorResponses :
          /\ od_responses' = Append(od_responses, r)
          /\ od_iteration' = od_iteration + 1
          /\ IF od_iteration + 1 < ObtenerIterations
             THEN UNCHANGED <<od_pc, od_ret>>
             ELSE /\ od_pc' = "raised"
                  /\ od_ret' = Some([ok |-> FALSE, text |-> r.text,
                                     type |-> "Exception", status |-> r.status])
    /\ UNCHANGED <<procVars, parseVars, featVars, predVars, rangeVars, alignVars,
                   lonVars, lagVars, climateVars, geoVars, wpVars, od_done>>

\* requests.get raises: nothing catches it.
ObtenerGetRaises ==
    /\ od_pc = "loop"
    /\ ~od_done /\ od_iteration < ObtenerIterations
    /\ od_pc' = "raised"
    /\ od_ret' = Some([ok |-> FALSE, text |-> <<>>,
                       type |-> "RequestException", status |-> 0])
    /\ UNCHANGED <<procVars, parseVars, featVars, predVars, rangeVars, alignVars,
                   lonVars, lagVars, climateVars, geoVars, wpVars, od_iteration, od_done, od_responses>>

NextObtener ==
    \/ ObtenerCall
    \/ ObtenerGet200
    \/ ObtenerGetNon200
    \/ ObtenerGetRaises

SpecObtener == InitObtener /\ [][NextObtener]_vars

----------------------------------------------------------------------------
(* Claims about the fetcher of models/obtener_data.py.                     *)

\* C22 as stated: every fetcher of the time-series source, the one of
\* models/obtener_data.py included, sends at most 3 requests per call and
\* raises after the third answer other than 200.
C22_Original ==
    /\ Len(od_responses) <= 3
    /\ (Len(od_responses) = 3 /\ od_responses[3].status # 200) =>
          (Len(od_ret) # 0 /\ od_ret[1].ok = FALSE)

----------------------------------------------------------------------------
(* Claims about a request of the fetcher that raises.                      *)

\* C27: the retry budget of the fetcher covers only answers other than 200.
\* While a fetch runs, every request it sent was answered with another
\* status; when a request raises, the call ends with that exception and the
\* raising request is the last one sent; after a 200 the request that got
\* it is the last one sent; and no fetch sends more than 3 requests.
C27_RaisePropagates ==
    Len(requests) > 0 =>
      LET sent == Len(SelectSeq(requests,
                        LAMBDA q : q.variable = requests[Len(requests)].variable))
          n == Len(responses)
      IN  /\ sent <= 3
          /\ (Len(err) # 0 /\ err[1].type = "RequestException") =>
                /\ pc = "raised"
                /\ sent = n + 1
                /\ \A i \in 1..n : responses[i].status # 200
          /\ (pc = "get" /\ requests[Len(requests)].variable = VARIABLES_id(VARIABLES_keys[vi])) =>
                /\ sent = n
                /\ \A i \in 1..n : responses[i].status # 200
          /\ (n > 0 /\ responses[n].status = 200) =>
                /\ sent = n
                /\ \A i \in 1..(n - 1) : responses[i].status # 200

\* The third request of a fetch raised after two answers other than 200,
\* and fetches of earlier variables had returned.
C27_Witness ==
    /\ pc = "raised"
    /\ Len(err) # 0
    /\ err[1].type = "RequestException"
    /\ Len(responses) = 2
    /\ Len(requests) >= 5
    /\ requests[Len(requests)].variable = requests[Len(requests) - 2].variable
    /\ requests[Len(requests)].variable # requests[Len(requests) - 3].variable

----------------------------------------------------------------------------
(* Claims about the row predict_rain_prob feeds to the model.              *)

\* The row of the window table at time t has every raw, lag and rolling
\* value.
FullAt(df, t) ==
    \E i \in 1..Len(df.index) : df.index[i] = t /\ FullyComputable(df, i)

\* C28 as stated: the row fed to the model has a timestamp t with
\* when - 24h <= t <= when; it is the row at `when` only if that row has no
\* missing feature, and an earlier row otherwise; when_utc of the result is
\* the requested timestamp; no row of the first 24 hours of the window is
\* used.
C28_Original ==
    (call.fn = "predict_rain_prob" /\ Len(predictions) # 0) =>
      LET t == predictions[Len(predictions)].row.index[1]
          hour == (call.when \div TicksPerHour) * TicksPerHour
      IN  /\ call.when - 24 * TicksPerHour <= t
          /\ t <= call.when
          /\ (t = hour) <=> FullAt(df_all[1], hour)
          /\ t >= requests[1].startDate + 24 * TicksPerHour
          /\ Len(result) # 0 => result[1].when_utc = call.when

\* C28: the row fed to the model has a timestamp t with
\* h - 24h <= t <= h, h being the hour of `when`; it is the row at h only
\* if that row has no missing feature, and an earlier row otherwise;
\* when_utc of the result is the requested timestamp; no row of the first 24
\* hours of the window is used.
C28_RowOfTheLastDay ==
    (call.fn = "predict_rain_prob" /\ Len(predictions) # 0) =>
      LET t == predictions[Len(predictions)].row.index[1]
          hour == (call.when \div TicksPerHour) * TicksPerHour
      IN  /\ hour - 24 * TicksPerHour <= t
          /\ t <= hour
          /\ (t = hour) <=> FullAt(df_all[1], hour)
          /\ t >= requests[1].startDate + 24 * TicksPerHour
          /\ Len(result) # 0 => result[1].when_utc = call.when

\* Data Rods held nothing of the last 24 hours before a `when` off the hour:
\* the row fed to the model is the one 24 hours before the hour of `when`.
C28_Witness ==
    /\ call.fn = "predict_rain_prob"
    /\ pc = "returned"
    /\ Len(predictions) = 1
    /\ call.when % TicksPerHour # 0
    /\ predictions[1].row.index[1]
          = (call.when \div TicksPerHour) * TicksPerHour - 24 * TicksPerHour
    /\ Len(result) # 0
    /\ result[1].when_utc = call.when

----------------------------------------------------------------------------
(* models/weather_predictor.py: ImprovedWeatherPredictor.  A model object  *)
(* is known by its class only; what it answers is the environment's.       *)

\* The month of the year of t, hour 0 being 1 January of a year of 365 days.
Month(t) ==
    LET ends == <<31, 59, 90, 120, 151, 181, 212, 243, 273, 304, 334, 365>>
    IN  CHOOSE m \in 1..12 :
           /\ DayOfYear(t) <= ends[m]
           /\ m > 1 => DayOfYear(t) > ends[m - 1]

\* strftime('%Y-%m-%d'): the day of t, the time of day dropped.
strftime_day(t) == HourOf(t) \div 24

Days(n) == HourStart(24 * n)

\* np.clip(x, lo, hi)
clip(x, lo, hi) == IF ~RGeq(x, lo) THEN lo ELSE IF ~RGeq(hi, x) THEN hi ELSE x

\* __init__
NewPredictor == [xgb_temp_model |-> None, xgb_precip_model |-> None]

TempModel == Some("GradientBoostingRegressor")
PrecipModel == Some("GradientBoostingClassifier")

\* What np.random.uniform(-0.1, 0.2) may give.
Uniforms == {Rat(-1, 10), Num(0), Rat(1, 5)}

\* A predictor that asks its models as soon as it has a temperature model:
\* without a precipitation model, predict_proba of None is an AttributeError.
predict_single_day_on_temp_model_only(self, lon, lat, target_date, proba, u) ==
    IF NotNa(self.xgb_temp_model) /\ IsNaN(self.xgb_precip_model)
    THEN Raise("AttributeError")
    ELSE LET is_rainy_season == Month(target_date) \in {12, 1, 2, 3}
             trained == NotNa(self.xgb_temp_model)
             precip_prob ==
                 IF trained THEN proba
                 ELSE clip(RAdd(IF is_rainy_season THEN Rat(45, 100) ELSE Rat(8, 100), u),
                           Num(0), Rat(9, 10))
         IN  [ok |-> TRUE,
              temp_pred |-> IF trained THEN "xgb_temp_model.predict" ELSE "temp_base",
              precip_prob |-> IF trained THEN "xgb_precip_model.predict_proba" ELSE "seasonal",
              pred |-> [fecha |-> strftime_day(target_date),
                        temperatura |-> [unidad |-> "C"],
                        precipitacion |->
                           [llovera |-> ~RGeq(Rat(1, 2), precip_prob),
                            probabilidad |-> Rat(precip_prob[1] * 100, precip_prob[2])],
                        ubicacion |-> [lat |-> lat, lon |-> lon]]]

\* predict_single_day(lon, lat, target_date): proba is what the
\* precipitation model answers and u what the seeded generator draws.  The
\* temperature is known by where it comes from only.
predict_single_day(self, lon, lat, target_date, proba, u) ==
    LET is_rainy_season == Month(target_date) \in {12, 1, 2, 3}
        trained == NotNa(self.xgb_temp_model) /\ NotNa(self.xgb_precip_model)
        precip_prob ==
            IF trained THEN proba
            ELSE clip(RAdd(IF is_rainy_season THEN Rat(45, 100) ELSE Rat(8, 100), u),
                      Num(0), Rat(9, 10))
    IN  [ok |-> TRUE,
         temp_pred |-> IF trained THEN "xgb_temp_model.predict" ELSE "temp_base",
         precip_prob |-> IF trained THEN "xgb_precip_model.predict_proba" ELSE "seasonal",
         pred |-> [fecha |-> strftime_day(target_date),
                   temperatura |-> [unidad |-> "C"],
                   precipitacion |->
                      [llovera |-> ~RGeq(Rat(1, 2), precip_prob),
                       probabilidad |-> Rat(precip_prob[1] * 100, precip_prob[2])],
                   ubicacion |-> [lat |-> lat, lon |-> lon]]]

\* What a model file may hold: save() writes the two models as they are.
ModelFiles ==
    {[xgb_temp |-> t, xgb_precip |-> q] :
        t \in {None, TempModel}, q \in {None, PrecipModel}}

\* The days predictions are asked for: in January, March, April and July.
TargetDates == {Days(9) + HourStart(12), Days(80), Days(100), Days(200)}

InitWeather ==
    /\ Idle
    /\ NoParserRun
    /\ NoFeatureRun
    /\ NoPrediction
    /\ NoRange
    /\ NoAlignerRun
    /\ NoLongitudeRun
    /\ NoLagRun
    /\ NoObtenerRun
    /\ NoClimateRun
    /\ NoGeocodeRun
    /\ flaky = {}
    /\ server = Serving({}, FullDesc)
    /\ model_file \in {None} \cup {Some(f) : f \in ModelFiles}
    /\ predictor = Some(NewPredictor)
    /\ wp_ret = None
    /\ day_calls = <<>>

\* train(lon, lat): too little data and it returns False with the models
\* as they were; else the temperature model is fitted, and the
\* precipitation model is fitted or, with one class of rain only, set to
\* None; it returns True.
WpTrain ==
    /\ NotNa(predictor)
    /\ \E outcome \in {"insufficient", "one_class", "two_classes"} :
          /\ predictor' =
                IF outcome = "insufficient" THEN predictor
                ELSE Some([xgb_temp_model |-> TempModel,
                           xgb_precip_model |->
                              IF outcome = "one_class" THEN None ELSE PrecipModel])
          /\ wp_ret' = Some(outcome # "insufficient")
    /\ UNCHANGED <<procVars, parseVars, featVars, predVars, rangeVars, alignVars,
                   lonVars, lagVars, odVars, climateVars, geoVars, model_file, day_calls>>

\* save(filepath)
WpSave ==
    /\ NotNa(predictor)
    /\ model_file' = Some([xgb_temp |-> The(predictor).xgb_temp_model,
                           xgb_precip |-> The(predictor).xgb_precip_model])
    /\ UNCHANGED <<procVars, parseVars, featVars, predVars, rangeVars, alignVars,
                   lonVars, lagVars, odVars, climateVars, geoVars, predictor, wp_ret, day_calls>>

\* if os.path.exists(model_path): predictor.load(model_path)
WpLoad ==
    /\ NotNa(predictor)
    /\ NotNa(model_file)
    /\ predictor' = Some([xgb_temp_model |-> The(model_file).xgb_temp,
                          xgb_precip_model |-> The(model_file).xgb_precip])
    /\ UNCHANGED <<procVars, parseVars, featVars, predVars, rangeVars, alignVars,
                   lonVars, lagVars, odVars, climateVars, geoVars, model_file, wp_ret, day_calls>>

\* pred = predictor.predict_single_day(lon, lat, fecha)
WpPredictSingleDay ==
    /\ NotNa(predictor)
    /\ \E date \in TargetDates : \E proba \in Probas : \E u \in Uniforms :
          day_calls' = <<[self |-> The(predictor), date |-> date,
                          out |-> predict_single_day(The(predictor), Rat(-798405, 10000),
                                                     Rat(-67714, 10000), date, proba, u)]>>
    /\ UNCHANGED <<procVars, parseVars, featVars, predVars, rangeVars, alignVars,
                   lonVars, lagVars, odVars, climateVars, geoVars, model_file, predictor, wp_ret>>

NextWeather ==
    \/ WpTrain
    \/ WpSave
    \/ WpLoad
    \/ WpPredictSingleDay

SpecWeather == InitWeather /\ [][NextWeather]_vars

----------------------------------------------------------------------------
(* Claims about ImprovedWeatherPredictor.                                  *)

\* C25: predict_single_day asks the trained models exactly when the
\* instance has both a temperature model and a precipitation model; in
\* every other state, a fresh instance and one whose train() returned True
\* with a single class of rain included, the temperature and the rain
\* probability are both the seasonal ones, and the call returns a whole
\* prediction: a date, a temperature, a rain probability of 0 to 100 with
\* its yes or no, and the place.
C25_ModelsOnlyWhenBoth ==
    \A k \in 1..Len(day_calls) :
      LET c == day_calls[k]
          both == Len(c.self.xgb_temp_model) # 0 /\ Len(c.self.xgb_precip_model) # 0
      IN  /\ c.out.ok
          /\ both => /\ c.out.temp_pred = "xgb_temp_model.predict"
                     /\ c.out.precip_prob = "xgb_precip_model.predict_proba"
          /\ ~both => /\ c.out.temp_pred = "temp_base"
                      /\ c.out.precip_prob = "seasonal"
          /\ DOMAIN c.out.pred = {"fecha", "temperatura", "precipitacion", "ubicacion"}
          /\ c.out.pred.fecha * 24 * TicksPerHour <= c.date
          /\ c.date < (c.out.pred.fecha + 1) * 24 * TicksPerHour
          /\ c.out.pred.precipitacion.probabilidad[1] >= 0
          /\ c.out.pred.precipitacion.probabilidad[1]
                <= 100 * c.out.pred.precipitacion.probabilidad[2]
          /\ c.out.pred.precipitacion.llovera
                = (c.out.pred.precipitacion.probabilidad[1]
                      > 50 * c.out.pred.precipitacion.probabilidad[2])

\* train() returned True and left a temperature model and no precipitation
\* model: the next prediction is the seasonal one, and says rain.
C25_Witness ==
    /\ wp_ret = <<TRUE>>
    /\ Len(day_calls) = 1
    /\ Len(day_calls[1].self.xgb_temp_model) # 0
    /\ Len(day_calls[1].self.xgb_precip_model) = 0
    /\ day_calls[1].out.ok
    /\ day_calls[1].out.temp_pred = "temp_base"
    /\ day_calls[1].out.pred.precipitacion.llovera

----------------------------------------------------------------------------
(* routes/climate.py: the module-level predictor and POST                  *)
(* /api/climate/predict.  A JSON number or string is a record of its type  *)
(* and value; a date string is the tuple of its fields between dashes, the *)
(* empty string the empty tuple.  Texts are written without accents.       *)

JNumber(x) == [type |-> "number", num |-> x, str |-> ""]
JString(t) == [type |-> "string", num |-> Num(0), str |-> t]

\* bool(v): a number other than 0, a string other than "".
Truthy(v) == IF v.type = "number" THEN v.num # Num(0) ELSE v.str # ""

\* data.get(a) or data.get(b): a missing key is None, and None is falsy.
Or(a, b) == IF NotNa(a) /\ Truthy(The(a)) THEN a ELSE b

\* float(v): a number as it is, the string of a number parsed, a ValueError
\* on any other string.
float(v) ==
    IF v.type = "number" THEN [ok |-> TRUE, x |-> v.num]
    ELSE IF v.str = "-6.7714" THEN [ok |-> TRUE, x |-> Rat(-67714, 10000)]
    ELSE Raise("ValueError")

\* datetime.strptime(t, '%Y-%m-%d'): midnight of the day, a ValueError on a
\* string that is not a year, a month and a day of that month.
strptime(t) ==
    LET lengths == <<31, 28, 31, 30, 31, 30, 31, 31, 30, 31, 30, 31>>
        before == <<0, 31, 59, 90, 120, 151, 181, 212, 243, 273, 304, 334>>
    IN  IF /\ Len(t) = 3
           /\ t[2] \in 1..12
           /\ t[3] \in 1..lengths[t[2]]
        THEN [ok |-> TRUE, t |-> Days((t[1] - 2025) * 365 + before[t[2]] + t[3] - 1)]
        ELSE Raise("ValueError")

\* return jsonify({"success": False, "error": ...}), status
ErrorAnswer(status, error) ==
    [status |-> status, success |-> FALSE, error |-> error, data |-> None,
     calls |-> <<>>]

\* What the environment draws for one request: the answer of the
\* precipitation model, the draw of the seeded generator, and whether
\* jsonify serialises the numpy.bool_ that the simulation puts under
\* 'llovera' or raises a TypeError on it.
ClimateDraws ==
    IF IsNaN(predictor)
    THEN {[proba |-> Num(0), u |-> Rat(1, 5), serialises |-> b] : b \in BOOLEAN}
    ELSE IF NotNa(The(predictor).xgb_temp_model) /\ NotNa(The(predictor).xgb_precip_model)
    THEN {[proba |-> q, u |-> Num(0), serialises |-> TRUE] : q \in {Rat(1, 5), Rat(3, 5)}}
    ELSE {[proba |-> Num(0), u |-> u, serialises |-> TRUE] : u \in {Num(0), Rat(1, 5)}}

\* predict_climate() on the body `data`.
predict_climate(data, draw) ==
    IF \A k \in DOMAIN data : IsNaN(data[k])
    THEN ErrorAnswer(400, "No se recibieron datos")
    ELSE
    LET lat0 == Or(data.lat, data.latitude)
        lon0 == Or(data.lon, data.longitude)
    IN
    IF IsNaN(lat0) \/ IsNaN(lon0)
    THEN ErrorAnswer(400, "Se requieren coordenadas (lat, lon)")
    ELSE
    LET lat == float(The(lat0))
        lon == float(The(lon0))
    IN
    IF ~lat.ok \/ ~lon.ok
    THEN ErrorAnswer(400, "Coordenadas invalidas")
    ELSE
    LET fecha_inicio ==
            IF IsNaN(data.fecha_inicio) \/ The(data.fecha_inicio) = <<>>
            THEN [ok |-> TRUE, t |-> now]
            ELSE strptime(The(data.fecha_inicio))
    IN
    IF ~fecha_inicio.ok
    THEN ErrorAnswer(400, "Formato de fecha invalido (usar YYYY-MM-DD)")
    ELSE
    LET fecha_fin ==
            IF IsNaN(data.fecha_fin) \/ The(data.fecha_fin) = <<>>
            THEN [ok |-> TRUE, t |-> fecha_inicio.t + Days(7)]
            ELSE strptime(The(data.fecha_fin))
    IN
    IF ~fecha_fin.ok
    THEN ErrorAnswer(400, "Formato de fecha fin invalido (usar YYYY-MM-DD)")
    ELSE
    LET dias_total == ((fecha_fin.t - fecha_inicio.t) \div Days(1)) + 1
        fecha_actual(i) == fecha_inicio.t + Days(i - 1)
    IN
    IF dias_total > 30
    THEN ErrorAnswer(400, "El rango maximo es 30 dias")
    ELSE IF dias_total < 1
    THEN ErrorAnswer(400, "La fecha de fin debe ser posterior a la fecha de inicio")
    ELSE IF NotNa(predictor)
    THEN LET made == [i \in 1..dias_total |->
                        [self |-> The(predictor), date |-> fecha_actual(i),
                         out |-> predict_single_day(The(predictor), lon.x, lat.x,
                                                    fecha_actual(i), draw.proba, draw.u)]]
         IN  [status |-> 200, success |-> TRUE, error |-> "",
              data |-> Some([ubicacion |-> [lat |-> lat.x, lon |-> lon.x],
                             fecha_inicio |-> strftime_day(fecha_inicio.t),
                             fecha_fin |-> strftime_day(fecha_fin.t),
                             dias_total |-> dias_total,
                             predicciones |-> [i \in 1..dias_total |-> made[i].out.pred],
                             modelo |-> "XGBoost Gradient Boosting",
                             nota |-> IF NotNa(model_file)
                                      THEN "Prediccion basada en modelo entrenado"
                                      ELSE "Prediccion simulada - Modelo no entrenado"]),
              calls |-> made]
    ELSE IF ~draw.serialises
    THEN ErrorAnswer(500, "Object of type bool_ is not JSON serializable")
    ELSE LET lluvia_prob(i) ==
                 LET q == clip(RAdd(IF Month(fecha_actual(i)) \in {12, 1, 2, 3}
                                    THEN Rat(45, 100) ELSE Rat(8, 100), draw.u),
                               Num(0), Rat(9, 10))
                 IN  Rat(q[1] * 100, q[2])
         IN  [status |-> 200, success |-> TRUE, error |-> "",
              data |-> Some([ubicacion |-> [lat |-> lat.x, lon |-> lon.x],
                             fecha_inicio |-> strftime_day(fecha_inicio.t),
                             fecha_fin |-> strftime_day(fecha_fin.t),
                             dias_total |-> dias_total,
                             predicciones |->
                                [i \in 1..dias_total |->
                                   [fecha |-> strftime_day(fecha_actual(i)),
                                    temperatura |-> [unidad |-> "C"],
                                    precipitacion |->
                                       [llovera |-> ~RGeq(Num(50), lluvia_prob(i)),
                                        probabilidad |-> lluvia_prob(i)],
                                    ubicacion |-> [lat |-> lat.x, lon |-> lon.x]]],
                             modelo |-> "Simulacion estacional",
                             nota |-> "DATOS SIMULADOS - Para datos reales entrena el modelo"]),
              calls |-> <<>>]

ClimateBody(lat, latitude, lon, fecha_inicio, fecha_fin) ==
    [lat |-> lat, latitude |-> latitude, lon |-> lon, longitude |-> None,
     fecha_inicio |-> fecha_inicio, fecha_fin |-> fecha_fin]

\* The bodies of the requests: every mix of coordinates with the dates
\* 2025-10-06 to 2025-10-07, every mix of dates with the coordinates of
\* Chiclayo, and the body without a key.
ClimateBodies ==
    {ClimateBody(a, b, c, Some(<<2025, 10, 6>>), Some(<<2025, 10, 7>>)) :
        a \in {None, Some(JNumber(Num(0))), Some(JNumber(Rat(-67714, 10000))),
               Some(JString("abc")), Some(JString("-6.7714"))},
        b \in {None, Some(JNumber(Rat(-67714, 10000)))},
        c \in {None, Some(JNumber(Num(0))), Some(JNumber(Rat(-798405, 10000)))}}
    \cup
    {ClimateBody(Some(JNumber(Rat(-67714, 10000))), None, Some(JNumber(Rat(-798405, 10000))), i, f) :
        i \in {None, Some(<<2025, 10, 6>>), Some(<<2025, 13, 1>>)},
        f \in {None, Some(<<>>), Some(<<2025, 10, 5>>), Some(<<2025, 10, 6>>),
               Some(<<2025, 10, 12>>), Some(<<2025, 11, 4>>), Some(<<2025, 11, 5>>),
               Some(<<2025, 10, 40>>)}}
    \cup {ClimateBody(None, None, None, None, None)}

\* datetime.now(): midnight and 13:30 of 2025-10-06.
Nows == {Days(278), Days(278) + HourStart(13) + 1}

InitClimate ==
    /\ Idle
    /\ NoParserRun
    /\ NoFeatureRun
    /\ NoPrediction
    /\ NoRange
    /\ NoAlignerRun
    /\ NoLongitudeRun
    /\ NoLagRun
    /\ NoObtenerRun
    /\ NoGeocodeRun
    /\ flaky = {}
    /\ server = Serving({}, FullDesc)
    /\ model_file = None
    /\ predictor = None
    /\ wp_ret = None
    /\ day_calls = <<>>
    /\ climate_up = FALSE
    /\ now \in Nows
    /\ climate_req = None
    /\ climate_resp = None

\* The module is imported: predictor = None if the import of the predictor
\* fails, else a new instance, loaded from the model file if there is one.
ClimateStartUp ==
    /\ ~climate_up
    /\ climate_up' = TRUE
    /\ \E PREDICTOR_AVAILABLE \in BOOLEAN :
          predictor' =
             IF ~PREDICTOR_AVAILABLE THEN None
             ELSE IF NotNa(model_file)
             THEN Some([xgb_temp_model |-> The(model_file).xgb_temp,
                        xgb_precip_model |-> The(model_file).xgb_precip])
             ELSE Some(NewPredictor)
    /\ UNCHANGED <<procVars, parseVars, featVars, predVars, rangeVars, alignVars,
                   lonVars, lagVars, odVars, geoVars, model_file, wp_ret, day_calls,
                   now, climate_req, climate_resp>>

\* Environment: a training run saves its models to ml/weather_model.pkl.
ModelFileWritten ==
    /\ \E f \in ModelFiles :
          /\ NotNa(f.xgb_temp)
          /\ model_file # Some(f)
          /\ model_file' = Some(f)
    /\ UNCHANGED <<procVars, parseVars, featVars, predVars, rangeVars, alignVars,
                   lonVars, lagVars, odVars, geoVars, predictor, wp_ret, day_calls, climateVars>>

\* Environment: ml/weather_model.pkl is removed.
ModelFileDeleted ==
    /\ NotNa(model_file)
    /\ model_file' = None
    /\ UNCHANGED <<procVars, parseVars, featVars, predVars, rangeVars, alignVars,
                   lonVars, lagVars, odVars, geoVars, predictor, wp_ret, day_calls, climateVars>>

\* POST /api/climate/predict with a body.
ClimatePredict ==
    /\ climate_up
    /\ \E data \in ClimateBodies : \E draw \in ClimateDraws :
          LET r == predict_climate(data, draw)
          IN  /\ climate_req' = Some(data)
              /\ climate_resp' = Some([status |-> r.status, success |-> r.success,
                                       error |-> r.error, data |-> r.data])
              /\ day_calls' = r.calls
    /\ UNCHANGED <<procVars, parseVars, featVars, predVars, rangeVars, alignVars,
                   lonVars, lagVars, odVars, geoVars, model_file, predictor, wp_ret,
                   climate_up, now>>

NextClimate ==
    \/ ClimateStartUp
    \/ ModelFileWritten
    \/ ModelFileDeleted
    \/ ClimatePredict

SpecClimate == InitClimate /\ [][NextClimate]_vars

----------------------------------------------------------------------------
(* Claims about POST /api/climate/predict.                                 *)

\* The answers of the route before it computes dias_total.
EarlyErrors ==
    {"No se recibieron datos", "Se requieren coordenadas (lat, lon)",
     "Coordenadas invalidas", "Formato de fecha invalido (usar YYYY-MM-DD)",
     "Formato de fecha fin invalido (usar YYYY-MM-DD)"}

\* A date field of the body is given: the key is there and is not "".
Given(field) == Len(field) # 0 /\ Len(field[1]) # 0

\* C23 as stated, on a server whose predictor is loaded: with
\* dias_total = (fecha_fin - fecha_inicio).days + 1, the route answers 400
\* and calls no predictor when dias_total > 30 or dias_total < 1; otherwise
\* it answers success with dias_total predictions, for the consecutive days
\* from fecha_inicio to fecha_fin.
C23_Original ==
    (/\ Len(climate_resp) # 0
     /\ Len(predictor) # 0
     /\ climate_resp[1].error \notin EarlyErrors) =>
      LET q == climate_req[1]
          r == climate_resp[1]
          day == 24 * TicksPerHour
          fecha_inicio == IF Given(q.fecha_inicio) THEN strptime(q.fecha_inicio[1]).t
                          ELSE now
          fecha_fin == IF Given(q.fecha_fin) THEN strptime(q.fecha_fin[1]).t
                       ELSE fecha_inicio + 7 * day
          dias_total == ((fecha_fin - fecha_inicio) \div day) + 1
      IN  IF dias_total > 30 \/ dias_total < 1
          THEN r.status = 400 /\ day_calls = <<>>
          ELSE /\ r.status = 200
               /\ r.success
               /\ Len(r.data[1].predicciones) = dias_total
               /\ \A k \in 1..dias_total :
                     r.data[1].predicciones[k].fecha = (fecha_inicio \div day) + k - 1
               /\ r.data[1].predicciones[dias_total].fecha = fecha_fin \div day

\* C24 as stated, on a server whose predictor is loaded: a request with
\* neither fecha_inicio nor fecha_fin is answered with dias_total = 7 and
\* exactly 7 predictions.
C24_Original ==
    (/\ Len(climate_resp) # 0
     /\ Len(predictor) # 0
     /\ climate_resp[1].status = 200
     /\ Len(climate_req[1].fecha_inicio) = 0
     /\ Len(climate_req[1].fecha_fin) = 0) =>
        /\ climate_resp[1].data[1].dias_total = 7
        /\ Len(climate_resp[1].data[1].predicciones) = 7

\* C29 as stated: a successful answer says "Predicción basada en modelo
\* entrenado" only if its predictions came from trained models loaded into
\* the predictor, and marks them as simulated whenever they came from the
\* seasonal fallback or the simulation.
C29_Original ==
    (Len(climate_resp) # 0 /\ climate_resp[1].status = 200) =>
      LET nota == climate_resp[1].data[1].nota
          trained == /\ Len(day_calls) > 0
                     /\ \A k \in 1..Len(day_calls) :
                           /\ day_calls[k].out.temp_pred = "xgb_temp_model.predict"
                           /\ day_calls[k].out.precip_prob = "xgb_precip_model.predict_proba"
      IN  /\ nota = "Prediccion basada en modelo entrenado" => trained
          /\ ~trained =>
                nota \in {"Prediccion simulada - Modelo no entrenado",
                          "DATOS SIMULADOS - Para datos reales entrena el modelo"}

\* C30 as stated: the route answers 400 for missing coordinates only when
\* the body has no latitude or no longitude, and a body with a number for
\* lat and for lon, 0 included, and a valid date range gets a prediction.
C30_Original ==
    Len(climate_resp) # 0 =>
      LET q == climate_req[1]
          r == climate_resp[1]
          IsNumber(field) == Len(field) # 0 /\ field[1].type = "number"
      IN  /\ r.error = "Se requieren coordenadas (lat, lon)" =>
                \/ Len(q.lat) = 0 /\ Len(q.latitude) = 0
                \/ Len(q.lon) = 0 /\ Len(q.longitude) = 0
          /\ (/\ IsNumber(q.lat)
              /\ IsNumber(q.lon)
              /\ q.fecha_inicio = <<(<<2025, 10, 6>>)>>
              /\ q.fecha_fin = <<(<<2025, 10, 7>>)>>
              /\ Len(predictor) # 0) =>
                /\ r.status = 200
                /\ Len(r.data[1].predicciones) = 2

----------------------------------------------------------------------------
(* routes/geo.py and models/geo.py: GET /geocode.  A Python list or string *)
(* is a record of its type and the tuple of its items or parts.            *)

\* d.get(key, "") or "": the value of the key if it is there and truthy.
OrEmpty(o) == IF NotNa(o) /\ The(o) # "" THEN The(o) ELSE ""

\* a or b, for strings.
OrElse(a, b) == IF a # "" THEN a ELSE b

\* API.api_lat_long(lat, long), Nominatim answering `response`.
api_lat_long(lat, long, response) ==
    IF response.status_code = StatusOK
    THEN LET address == response.json.address
         IN  [type |-> "list",
              value |-> <<[departamento |-> OrEmpty(address.state),
                           provincia |-> OrEmpty(address.region),
                           distrito |->
                              OrElse(OrEmpty(address.village),
                              OrElse(OrEmpty(address.town),
                              OrElse(OrEmpty(address.suburb),
                              OrElse(OrEmpty(address.city),
                                     OrEmpty(address.hamlet))))),
                           direccionCompleta |->
                              OrElse(OrEmpty(response.json.display_name),
                                     "Direccion no disponible"),
                           country_code |-> OrEmpty(address.country_code)]>>]
    ELSE [type |-> "str",
          value |-> <<"Latitud: ", lat, ", Longitud: ", long,
                      ", Error: No se pudo obtener la direccion">>]

\* geocode(): `if response` is true of a list or a string that is not empty.
geocode(args, response) ==
    IF IsNaN(args.lat) \/ IsNaN(args.long)
    THEN [status |-> 400, body |-> [error |-> "Parameters are missing 'lat' or 'long'"],
          asked |-> FALSE]
    ELSE LET answer == api_lat_long(The(args.lat), The(args.long), response)
         IN  IF Len(answer.value) # 0
             THEN [status |-> 200, body |-> answer, asked |-> TRUE]
             ELSE [status |-> 500, body |-> [error |-> "Geocoding failed"], asked |-> TRUE]

\* What Nominatim may answer with a 200.
GeoJsons ==
    {[address |-> [state |-> st, region |-> None, village |-> None, town |-> tw,
                   suburb |-> None, city |-> ct, hamlet |-> None, country_code |-> cc],
      display_name |-> dn] :
        st \in {None, Some("Lambayeque")}, tw \in {None, Some("Pimentel")},
        ct \in {None, Some("Chiclayo")}, cc \in {None, Some("pe")},
        dn \in {None, Some(""), Some("Chiclayo, Lambayeque, Peru")}}

NoJson ==
    [address |-> [state |-> None, region |-> None, village |-> None, town |-> None,
                  suburb |-> None, city |-> None, hamlet |-> None, country_code |-> None],
     display_name |-> None]

GeoResponses ==
    {[status_code |-> StatusOK, json |-> j] : j \in GeoJsons}
       \cup {[status_code |-> c, json |-> NoJson] : c \in {403, 404, 429, 500, 503}}

GeoArgs ==
    {[lat |-> a, long |-> b] :
        a \in {None, Some(""), Some("-6.7714")},
        b \in {None, Some("-79.8405"), Some("abc")}}

InitGeo ==
    /\ Idle
    /\ NoParserRun
    /\ NoFeatureRun
    /\ NoPrediction
    /\ NoRange
    /\ NoAlignerRun
    /\ NoLongitudeRun
    /\ NoLagRun
    /\ NoAppRun
    /\ flaky = {}
    /\ server = Serving({}, FullDesc)

\* GET /geocode?lat=..&long=.., Nominatim answering if it is asked.
Geocode ==
    /\ \E args \in GeoArgs : \E response \in GeoResponses :
          LET r == geocode(args, response)
          IN  /\ geo_args' = Some(args)
              /\ geo_upstream' = IF r.asked THEN Some(response) ELSE None
              /\ geo_resp' = Some([status |-> r.status, body |-> r.body])
    /\ UNCHANGED <<procVars, parseVars, featVars, predVars, rangeVars, alignVars,
                   lonVars, lagVars, odVars, wpVars, climateVars>>

\* GET /geocode when requests.get raises: nothing catches it, and the
\* server answers 500 on its own.
GeocodeRaises ==
    /\ \E args \in GeoArgs :
          /\ NotNa(args.lat) /\ NotNa(args.long)
          /\ geo_args' = Some(args)
    /\ geo_upstream' = None
    /\ geo_resp' = Some([status |-> 500, body |-> [error |-> "Internal Server Error"]])
    /\ UNCHANGED <<procVars, parseVars, featVars, predVars, rangeVars, alignVars,
                   lonVars, lagVars, odVars, wpVars, climateVars>>

NextGeo ==
    \/ Geocode
    \/ GeocodeRaises

SpecGeo == InitGeo /\ [][NextGeo]_vars

----------------------------------------------------------------------------
(* Claims about GET /geocode.                                              *)

\* C26 as stated: when Nominatim answers with a status other than 200 the
\* route answers 500 with {"error": "Geocoding failed"}, and it answers 200
\* only when the lookup succeeded.
C26_Original ==
    (Len(geo_resp) # 0 /\ Len(geo_upstream) # 0) =>
      /\ geo_upstream[1].status_code # 200 =>
            /\ geo_resp[1].status = 500
            /\ geo_resp[1].body = [error |-> "Geocoding failed"]
      /\ geo_resp[1].status = 200 => geo_upstream[1].status_code = 200

====
